---- MODULE Spec2Model ----
(***************************************************************************)
(* The text templating engine of cato-services (util/utils.py):            *)
(* build_string_from_template and its helpers _evaluate_conditions and     *)
(* _replace_for_loops, and the helpers handle404 (with                     *)
(* handle_repeat_exception), collect_pages and tee.  Text is modelled      *)
(* character by character: a text is a string, positions are 1-based, and  *)
(* the regular expressions and str.replace / str.find are computed as      *)
(* Python computes them.                                                   *)
(*                                                                         *)
(* Each function that is studied step by step has its own variables; a     *)
(* specification runs one function and leaves the others idle.             *)
(***************************************************************************)
EXTENDS Integers, Sequences, FiniteSets, TLC

\* build_string_from_template
VARIABLES template, replacements, result, pc, idx, calls

\* _evaluate_conditions, step by step: its argument, the working text (the
\* local "result"), where it stands, the conditions of the findall that the
\* for loop has still to replace, and the working text at the start of the
\* iteration under way
VARIABLES evalInput, evalResult, evalPc, evalConds, evalPrev

\* handle404 / handle_repeat_exception: the alternatives handle404 was called
\* with, the arguments of the frame of handle_repeat_exception under way
\* (alt, exception, predicate), where the call stands, what it returned or
\* raised, and the alternatives called so far
VARIABLES handleArgs, alt, exception, predicate, handlePc, handleOut, handleCalled

\* collect_pages: its argument (the response of each page; past the last one
\* the response is None), its locals page, final_response and response, where
\* the call stands, and the page numbers url_call was called with
VARIABLES url_call, page, final_response, response, pagesPc, requested

\* tee: the items of the source and the argument n, the items next(iterable)
\* has still to give, the caches (cache_0 .. cache_{n-1}) and self.index of
\* each TeeGenerator, where the call stands, and what is observed of the
\* iterators: the items each has returned and whether its next() has let
\* StopIteration through
VARIABLES teeItems, teeN, iterable, cache, index, teePc, yielded, stopped

\* the Aqua gate check (main of aqua_gate_check.py and gate_check_images):
\* the images of the command line, the suppressions and the vulnerabilities
\* the image scanner answers with, the image_data list as it grows, the
\* flag, the parameters of the summary template, where the run stands and
\* the exit status of the process
VARIABLES images, suppressions, fixable_image_vulnerabilities, image_data,
          gate_check_flag, template_params, gatePc, exit_code

\* the SDE gate check (gate_check of sde.py): what SD Elements answers with
\* (projects, policy, cm_summary), CRM_DATA and the clock, the annotations
\* written, the summaries written, the (summary, error_code) pair of
\* get_summary_and_error_code, where the run stands and the exit status
VARIABLES projects, policy, cm_summary, CRM_DATA, now, annotations, written,
          summary, error_code, sdePc, sdeExit

templateVars == <<template, replacements, result, pc, idx, calls>>
evalVars     == <<evalInput, evalResult, evalPc, evalConds, evalPrev>>

handleVars   == <<handleArgs, alt, exception, predicate, handlePc, handleOut,
                   handleCalled>>

pagesVars    == <<url_call, page, final_response, response, pagesPc, requested>>

teeVars      == <<teeItems, teeN, iterable, cache, index, teePc, yielded, stopped>>

gateVars     == <<images, suppressions, fixable_image_vulnerabilities,
                   image_data, gate_check_flag, template_params, gatePc,
                   exit_code>>

sdeVars      == <<projects, policy, cm_summary, CRM_DATA, now, annotations,
                   written, summary, error_code, sdePc, sdeExit>>

vars == <<templateVars, evalVars, handleVars, pagesVars, teeVars, gateVars,
          sdeVars>>

\* the variables of the functions other than build_string_from_template
notTemplateVars == <<evalVars, handleVars, pagesVars, teeVars, gateVars,
    sdeVars>>
\* the variables of the functions other than _evaluate_conditions
notEvalVars == <<templateVars, handleVars, pagesVars, teeVars, gateVars,
    sdeVars>>
\* the variables of the functions other than handle404
notHandleVars == <<templateVars, evalVars, pagesVars, teeVars, gateVars,
    sdeVars>>
\* the variables of the functions other than collect_pages
notPagesVars == <<templateVars, evalVars, handleVars, teeVars, gateVars,
    sdeVars>>
\* the variables of the functions other than tee
notTeeVars == <<templateVars, evalVars, handleVars, pagesVars, gateVars,
    sdeVars>>
\* the variables of the functions other than the Aqua gate check
notGateVars == <<templateVars, evalVars, handleVars, pagesVars, teeVars,
    sdeVars>>
\* the variables of the functions other than the SDE gate check
notSdeVars == <<templateVars, evalVars, handleVars, pagesVars, teeVars,
    gateVars>>

(***************************************************************************)
(* Python string primitives.                                               *)
(***************************************************************************)

\* s[p:p+len(pat)] == pat, with p 1-based
StartsWithAt(s, p, pat) ==
    /\ p >= 1
    /\ p + Len(pat) - 1 <= Len(s)
    /\ SubSeq(s, p, p + Len(pat) - 1) = pat

\* the text from position p to the end
Suffix(s, p) == SubSeq(s, p, Len(s))

\* str.find(pat, from): the least position >= from where pat occurs, 0 if none
\* (Python answers -1 where this answers 0); the text is searched sixteen
\* positions at a time, search[lo] being the answer for the text from lo on
Find(s, pat, from) ==
    LET last == Len(s) - Len(pat) + 1
        search[lo \in 1..(Len(s) + 1)] ==
            LET hi == IF lo + 15 < last THEN lo + 15 ELSE last
                ps == {p \in lo..hi : SubSeq(s, p, p + Len(pat) - 1) = pat}
            IN  IF lo > last THEN 0
                ELSE IF ps # {} THEN CHOOSE p \in ps : \A q \in ps : p <= q
                ELSE search[hi + 1]
    IN  search[from]

\* str.replace(old, new, 1): the first occurrence only
ReplaceFirst(s, old, new) ==
    LET p == Find(s, old, 1)
    IN  IF p = 0 THEN s
        ELSE SubSeq(s, 1, p - 1) \o new \o Suffix(s, p + Len(old))

\* str.replace(old, new) for a non-empty old: every non-overlapping occurrence,
\* found left to right, is replaced
RECURSIVE Replace(_, _, _)
Replace(s, old, new) ==
    LET p == Find(s, old, 1)
    IN  IF p = 0 THEN s
        ELSE SubSeq(s, 1, p - 1) \o new
             \o Replace(Suffix(s, p + Len(old)), old, new)

\* str.count(pat) for a non-empty pat
RECURSIVE Count(_, _)
Count(s, pat) ==
    LET p == Find(s, pat, 1)
    IN  IF p = 0 THEN 0 ELSE 1 + Count(Suffix(s, p + Len(pat)), pat)

Contains(s, pat) == Find(s, pat, 1) # 0

(***************************************************************************)
(* Values of the replacements dictionary and str(value).                   *)
(***************************************************************************)

StrVal(s)  == [kind |-> "str",  s |-> s,  b |-> FALSE, n |-> 0, elems |-> <<>>]
BoolVal(b) == [kind |-> "bool", s |-> "", b |-> b,     n |-> 0, elems |-> <<>>]
IntVal(n)  == [kind |-> "int",  s |-> "", b |-> FALSE, n |-> n, elems |-> <<>>]
ListVal(e) == [kind |-> "list", s |-> "", b |-> FALSE, n |-> 0, elems |-> e]

\* one item of a dict, in insertion order
Item(k, v) == [key |-> k, val |-> v]

IsList(v) == v.kind = "list"

Digit(d) == SubSeq("0123456789", d + 1, d + 1)

RECURSIVE Decimal(_)
Decimal(n) == IF n < 10 THEN Digit(n) ELSE Decimal(n \div 10) \o Digit(n % 10)

\* str(value) for str, bool and non-negative int values
Str(v) ==
    CASE v.kind = "str"  -> v.s
      [] v.kind = "bool" -> IF v.b THEN "True" ELSE "False"
      [] v.kind = "int"  -> Decimal(v.n)

\* f"{{{{ {key} }}}}"
Placeholder(key) == "{{ " \o key \o " }}"

(***************************************************************************)
(* _evaluate_conditions: the two regular expressions and the two loops.    *)
(***************************************************************************)

IfFalseOpen  == "<if False>"
IfFalseClose == "</if False>"
IfTrueOpen   == "<if True>"
IfTrueClose  == "</if True>"
\* the closer as the lookahead of the <if True> expression spells it: no ">"
IfTrueLookaheadClose == "</if True"

\* an expression without the negative lookahead: no position is rejected
LookaheadAdmitsAll(s, j, open, laClose) == FALSE

\* the negative lookahead (?!OPEN.*?CLOSE) at position j: it rejects j when
\* OPEN stands at j and CLOSE occurs anywhere after it (re.S: "." is any char)
Lookahead(s, j, open, laClose) ==
    /\ StartsWithAt(s, j, open)
    /\ Find(s, laClose, j + Len(open)) # 0

\* OPEN((?!OPEN.*?CLOSE).)*?CLOSE tried with the body starting at j: the lazy
\* star stops at the first closer from j on, and the lookahead must admit
\* every character it takes before that closer.  The position of the closer,
\* 0 when there is no match.
BodyEnd(s, j, open, close, laClose) ==
    LET c == Find(s, close, j)
    IN  IF c # 0 /\ \A k \in j..(c - 1) : ~Lookahead(s, k, open, laClose)
        THEN c
        ELSE 0

\* re.findall from position p: the non-overlapping matches, left to right,
\* each as <<group 1 (the whole region), the body>>
\* (a match starts at an opener, so the scan goes from opener to opener;
\* scan[q] is the list of the matches found from position q on)
FindAllConditions(s, p, open, close, laClose) ==
    LET scan[q \in 1..(Len(s) + 1)] ==
            LET o == Find(s, open, q)
            IN  IF o = 0 THEN <<>>
                ELSE LET e == BodyEnd(s, o + Len(open), open, close, laClose)
                     IN  IF e = 0
                         THEN scan[o + 1]
                         ELSE <<  <<SubSeq(s, o, e + Len(close) - 1),
                                    SubSeq(s, o + Len(open), e - 1)>>  >>
                              \o scan[e + Len(close)]
    IN  scan[p]

\* for condition in false_if_conditions: result = result.replace(condition[0], "")
RECURSIVE RemoveConditions(_, _, _)
RemoveConditions(s, conds, i) ==
    IF i > Len(conds) THEN s
    ELSE RemoveConditions(Replace(s, conds[i][1], ""), conds, i + 1)

\* a true region loses its body as a false region does
RECURSIVE UnwrapConditionsDroppingBody(_, _, _)
UnwrapConditionsDroppingBody(s, conds, i) ==
    IF i > Len(conds) THEN s
    ELSE UnwrapConditionsDroppingBody(Replace(s, conds[i][1], ""), conds, i + 1)

\* for condition in true_if_conditions:
\*     result = result.replace(condition[0], condition[1])
RECURSIVE UnwrapConditions(_, _, _)
UnwrapConditions(s, conds, i) ==
    IF i > Len(conds) THEN s
    ELSE UnwrapConditions(Replace(s, conds[i][1], conds[i][2]), conds, i + 1)

Returned(s) == [raised |-> FALSE, text |-> s]
Raised      == [raised |-> TRUE,  text |-> ""]

FalseConditions(s) ==
    FindAllConditions(s, 1, IfFalseOpen, IfFalseClose, IfFalseClose)

TrueConditions(s) ==
    FindAllConditions(s, 1, IfTrueOpen, IfTrueClose, IfTrueLookaheadClose)

\* one iteration of the <if False> loop
FalseLoopBody(s) == RemoveConditions(s, FalseConditions(s), 1)

\* one iteration of the <if True> loop
TrueLoopBody(s) == UnwrapConditions(s, TrueConditions(s), 1)

\* the second while loop leaves (break) where the code raises
RECURSIVE TrueLoopBreaking(_)
TrueLoopBreaking(s) ==
    IF ~Contains(s, IfTrueOpen) THEN Returned(s)
    ELSE IF TrueConditions(s) = <<>> THEN Returned(s)
    ELSE TrueLoopBreaking(TrueLoopBody(s))

\* the second while loop, then return result
RECURSIVE TrueLoop(_)
TrueLoop(s) ==
    IF ~Contains(s, IfTrueOpen) THEN Returned(s)
    ELSE IF TrueConditions(s) = <<>> THEN Raised
    ELSE TrueLoop(TrueLoopBody(s))

\* the first while loop, then the second
RECURSIVE FalseLoop(_)
FalseLoop(s) ==
    IF ~Contains(s, IfFalseOpen) THEN TrueLoop(s)
    ELSE IF FalseConditions(s) = <<>> THEN Raised
    ELSE FalseLoop(FalseLoopBody(s))

_evaluate_conditions(s) == FalseLoop(s)

(***************************************************************************)
(* _replace_for_loops.  The key is interpolated into the regular           *)
(* expression unescaped: a "." of the key matches any character.  Keys are *)
(* drawn from letters, digits, "_", "-" and ".", the characters of the     *)
(* keys image_data_to_template_params builds.                              *)
(***************************************************************************)

ForOpen(key)  == "<for " \o key \o ">"
ForClose(key) == "</for " \o key \o ">"

\* the pattern pat matches at position p of s ("." matches any character)
PatternAt(s, p, pat) ==
    /\ p >= 1
    /\ p + Len(pat) - 1 <= Len(s)
    /\ \A i \in 1..Len(pat) :
          \/ SubSeq(pat, i, i) = "."
          \/ SubSeq(pat, i, i) = SubSeq(s, p + i - 1, p + i - 1)

RECURSIVE FindWildcard(_, _, _)
FindWildcard(s, pat, from) ==
    IF from + Len(pat) - 1 > Len(s) THEN 0
    ELSE IF PatternAt(s, from, pat) THEN from
    ELSE FindWildcard(s, pat, from + 1)

\* the least position >= from where pat matches, 0 if none; a pattern
\* without "." matches as plain text
FindPattern(s, pat, from) ==
    IF Find(pat, ".", 1) = 0 THEN Find(s, pat, from)
    ELSE FindWildcard(s, pat, from)

\* for_match[0] of re.findall(rf'(<for {key}>(.*?)<\/for {key}>)', ...): the
\* leftmost opener that has a closer after it (the leftmost opener, if any
\* has), up to its nearest closer, as <<the whole region, the body>>; <<>>
\* when for_match is empty
FirstForMatch(s, key) ==
    LET open  == ForOpen(key)
        close == ForClose(key)
        p == FindPattern(s, open, 1)
        e == IF p = 0 THEN 0 ELSE FindPattern(s, close, p + Len(open))
    IN  IF e = 0 THEN <<>>
        ELSE <<SubSeq(s, p, e + Len(close) - 1),
               SubSeq(s, p + Len(open), e - 1)>>

\* s without its {{ ... }} placeholders
RECURSIVE WithoutPlaceholders(_)
WithoutPlaceholders(s) ==
    LET p == Find(s, "{{ ", 1)
        e == IF p = 0 THEN 0 ELSE Find(s, " }}", p + 3)
    IN  IF e = 0 THEN s
        ELSE SubSeq(s, 1, p - 1) \o WithoutPlaceholders(Suffix(s, e + 3))

\* the placeholders the element does not bind are blanked
RECURSIVE ForItemBlankingUnbound(_, _, _)
ForItemBlankingUnbound(forItem, listElement, i) ==
    IF i > Len(listElement) THEN WithoutPlaceholders(forItem)
    ELSE ForItemBlankingUnbound(Replace(forItem, Placeholder(listElement[i].key),
                                        Str(listElement[i].val)),
                                listElement, i + 1)

\* for replacements_key, replacements_value in list_element.items():
\*     for_item = for_item.replace(...)
RECURSIVE ForItem(_, _, _)
ForItem(forItem, listElement, i) ==
    IF i > Len(listElement) THEN forItem
    ELSE ForItem(Replace(forItem, Placeholder(listElement[i].key),
                         Str(listElement[i].val)),
                 listElement, i + 1)

\* the instances are put together last element first
RECURSIVE ForResultReversed(_, _, _)
ForResultReversed(forBody, value, i) ==
    IF i > Len(value) THEN ""
    ELSE ForResultReversed(forBody, value, i + 1) \o ForItem(forBody, value[i], 1)

\* for list_element in value: ... for_result += for_item
RECURSIVE ForResult(_, _, _)
ForResult(forBody, value, i) ==
    IF i > Len(value) THEN ""
    ELSE ForItem(forBody, value[i], 1) \o ForResult(forBody, value, i + 1)

\* only the first occurrence of the matched text is replaced
_replace_first_for_loop(s, key, value) ==
    LET forMatch == FirstForMatch(s, key)
    IN  IF forMatch = <<>> THEN s
        ELSE ReplaceFirst(s, forMatch[1], ForResult(forMatch[2], value, 1))

\* return result.replace(for_match[0][0], for_result)
_replace_for_loops(s, key, value) ==
    LET forMatch == FirstForMatch(s, key)
    IN  IF forMatch = <<>> THEN s
        ELSE Replace(s, forMatch[1], ForResult(forMatch[2], value, 1))

(***************************************************************************)
(* Bounds and the inputs of build_string_from_template.                    *)
(***************************************************************************)

\* the longest template of the conditional family, in fragments
MaxFrags == 3

\* all sequences over S of length at most n, concatenated into one text
RECURSIVE Texts(_, _)
Texts(S, n) ==
    IF n = 0 THEN {""}
    ELSE LET shorter == Texts(S, n - 1)
         IN  shorter \cup {t \o f : t \in shorter, f \in S}

\* template fragments: text, placeholders and conditional tags
PlainFrags == {"X", "{{ a }}", "{{ ab }}", "{{ u }}"}
CondFrags ==
    PlainFrags \cup {"<if {{ b }}>", "</if {{ b }}>",
                     "<if True>", "</if True>", "<if False>", "</if False>"}

CondTemplates == Texts(CondFrags, MaxFrags)

\* replacements for the conditional family: a and b are bound, ab and u are not
CondReplacements ==
    {<<Item("b", BoolVal(bv)), Item("a", av)>> :
        bv \in BOOLEAN, av \in {StrVal("Y"), IntVal(10)}}
    \cup {<<Item("a", StrVal("Y"))>>, <<>>}

\* the longest loop body, in fragments, and the longest list
MaxBody == 3
MaxElems == 2

\* all sequences over S of length at most n
RECURSIVE Lists(_, _)
Lists(S, n) ==
    IF n = 0 THEN {<<>>}
    ELSE LET shorter == Lists(S, n - 1)
         IN  shorter \cup {Append(l, e) : l \in shorter, e \in S}

\* loop bodies: text, element placeholders and per-element conditional tags
BodyFrags == {"{{ n }},", "{{ u }}", "<if {{ flag }}>", "</if {{ flag }}>"}

\* text before the loop: nothing, or a bound and an unbound placeholder
LoopPrefixes == {"", "{{ a }}{{ u }}"}

\* a loop with its closer, and after nothing a loop that lacks its closer
LoopTemplates ==
    {pre \o "<for items>" \o body \o "</for items>" \o "Z" :
        pre \in LoopPrefixes, body \in Texts(BodyFrags, MaxBody)}
    \cup {"<for items>" \o body \o "Z" : body \in Texts(BodyFrags, MaxBody)}

\* element mappings of the list "items": n and flag are bound, u is not
ItemElements ==
    {<<Item("n", IntVal(1)), Item("flag", BoolVal(TRUE))>>,
     <<Item("flag", BoolVal(FALSE)), Item("n", StrVal("Y"))>>}

\* a is a top-level scalar, items the list of the loop; u is bound nowhere
LoopReplacements ==
    {<<Item("a", StrVal("W")), Item("items", ListVal(l))>> :
        l \in Lists(ItemElements, MaxElems)}

\* the most elements of an outer list and of an inner list
MaxOuter == 2
MaxInner == 2

\* nested loops as the docstring writes them: the name of the inner loop is
\* a field (inner_key) of the outer element
TitleFirstTemplate ==
    "<for outer>{{ title }}<for {{ inner_key }}>{{ x }}</for {{ inner_key }}></for outer>"
TitleLastTemplate ==
    "<for outer>[<for {{ inner_key }}>{{ x }},</for {{ inner_key }}>{{ title }}]</for outer>"
\* a field of the outer element inside the inner body
TitleInsideTemplate ==
    "<for outer><for {{ inner_key }}>{{ title }}{{ x }};</for {{ inner_key }}></for outer>"
NestedTemplates == {TitleFirstTemplate, TitleLastTemplate, TitleInsideTemplate}

OuterElements ==
    {<<Item("inner_key", StrVal("grp1")), Item("title", StrVal("A"))>>,
     <<Item("inner_key", StrVal("grp2")), Item("title", StrVal("B"))>>,
     <<Item("inner_key", StrVal("grp1")), Item("title", StrVal("B"))>>}

\* the inner list of n elements whose x values are prefix1, prefix2, ...
InnerList(prefix, n) == [i \in 1..n |-> <<Item("x", StrVal(prefix \o Decimal(i)))>>]

\* insertion orders of the three list bindings, some with a scalar among them
NestedOrders ==
    {<<"outer", "grp1", "grp2">>, <<"outer", "s", "grp2", "grp1">>,
     <<"grp1", "outer", "grp2">>, <<"grp2", "grp1", "s", "outer">>}

NestedReplacements ==
    {[i \in DOMAIN ord |->
        Item(ord[i], CASE ord[i] = "outer" -> ListVal(o)
                       [] ord[i] = "grp1"  -> ListVal(InnerList("v", n1))
                       [] ord[i] = "grp2"  -> ListVal(InnerList("w", n2))
                       [] ord[i] = "s"     -> StrVal("S"))] :
        ord \in NestedOrders,
        o \in Lists(OuterElements, MaxOuter),
        n1 \in 0..MaxInner, n2 \in 0..MaxInner}

\* the longest text of the region family, in fragments
MaxRegionFrags == 6

\* texts with any number of <for k> openers and closers, in any order
RegionFrags == {"<for k>", "</for k>", "{{ n }},", "A"}

RegionTemplates == Texts(RegionFrags, MaxRegionFrags)

\* the list [{"n": 1}, {"n": 2}, ...] of m elements
RegionList(m) == [i \in 1..m |-> <<Item("n", IntVal(i))>>]

\* k is a list binding, or nothing is bound at all
RegionReplacements ==
    {<<>>} \cup {<<Item("k", ListVal(RegionList(m)))>> : m \in 0..MaxElems}

\* the longest text of the family whose key holds a ".", in fragments
MaxDottedFrags == 3

\* a key as image_data_to_template_params builds them from an image name,
\* and a name that differs from it in the place of the "."
DottedKey == "a.b"
OtherName == "aXb"

DottedFrags ==
    {ForOpen(DottedKey), ForClose(DottedKey),
     ForOpen(OtherName), ForClose(OtherName), "{{ n }},"}

DottedTemplates == Texts(DottedFrags, MaxDottedFrags)

DottedReplacements ==
    {<<Item(DottedKey, ListVal(RegionList(m)))>> : m \in 0..MaxElems}

\* the longest text before a loop and the longest loop body of the family
\* whose values hold placeholders and tags, in fragments, and its longest list
MaxValueFrags == 2
MaxValueElems == 1

\* placeholders of the top-level scalars a and b
ValueFrags == {"{{ a }}", "{{ b }}"}

\* placeholders of the element fields n and m, and of the name a, which is
\* a top-level scalar and a field of some elements
ValueBodyFrags == {"{{ n }}", "{{ m }}", "{{ a }}"}

ValueTemplates ==
    {pre \o "Z" : pre \in Texts(ValueFrags, MaxValueFrags)}
    \cup {pre \o "<for k>" \o body \o "</for k>" \o "Z" :
            pre \in Texts(ValueFrags, MaxValueFrags),
            body \in Texts(ValueBodyFrags, MaxValueFrags)}

\* string values: plain text, the placeholder of another name, a tag
AValues == {"Y", "{{ b }}", "{{ n }}", "<if False>", "</for k>"}
BValues == {"W", "{{ a }}", "</if False>"}

ValueElements ==
    {<<Item("n", StrVal("1")), Item("m", StrVal("2"))>>,
     <<Item("n", StrVal("{{ m }}")), Item("m", StrVal("2"))>>,
     <<Item("m", StrVal("2")), Item("n", StrVal("{{ m }}"))>>,
     <<Item("a", StrVal("E")), Item("n", StrVal("1"))>>,
     <<Item("n", StrVal("<if False>")), Item("m", StrVal("2"))>>}

\* a before b and b before a; the list k after or before the scalars
ValueReplacements ==
    {<<Item("a", StrVal(av)), Item("b", StrVal(bv)), Item("k", ListVal(l))>> :
        av \in AValues, bv \in BValues, l \in Lists(ValueElements, MaxValueElems)}
    \cup
    {<<Item("k", ListVal(l)), Item("b", StrVal(bv)), Item("a", StrVal(av))>> :
        av \in AValues, bv \in BValues, l \in Lists(ValueElements, MaxValueElems)}

\* the nested example of the docstring, as written there
DocTemplate ==
    "\n<for top_level>\n{{ title }}\n<for {{ for_key }}>\nHi! My name is {{ name }}.\n</for {{ for_key }}>\n</for top_level>\n"

DocReplacements ==
    <<Item("top_level", ListVal(<<
          <<Item("for_key", StrVal("first_loop")), Item("title", StrVal("First Set"))>>,
          <<Item("for_key", StrVal("second_loop")), Item("title", StrVal("Second Set"))>> >>)),
      Item("first_loop", ListVal(<< <<Item("name", StrVal("Bob"))>>,
                                    <<Item("name", StrVal("Alice"))>> >>)),
      Item("second_loop", ListVal(<< <<Item("name", StrVal("Charlie"))>>,
                                     <<Item("name", StrVal("Diane"))>> >>))>>

(***************************************************************************)
(* build_string_from_template, one action per step of the function.        *)
(***************************************************************************)

Call(fn, key, arg, out) == [fn |-> fn, key |-> key, arg |-> arg, out |-> out]

\* the result starts as the empty text
StartFromEmptyText ==
    /\ result = ""
    /\ pc = "scalars"
    /\ idx = 1
    /\ calls = <<>>

\* the state right after "result = template"
Start ==
    /\ result = template
    /\ pc = "scalars"
    /\ idx = 1
    /\ calls = <<>>

\* _evaluate_conditions is not running on its own
EvalIdle ==
    /\ evalInput = "" /\ evalResult = "" /\ evalPc = "idle"
    /\ evalConds = <<>> /\ evalPrev = ""

\* what a call does: it returns a value or raises an exception of a class,
\* an APIException with its status_code
AltReturns(v) == [kind |-> "returns", value |-> v, class |-> "", status_code |-> 0]
AltRaises(c, sc) == [kind |-> "raises", value |-> "", class |-> c, status_code |-> sc]

\* nothing returned or raised yet
NoOutcome == [kind |-> "", value |-> "", class |-> "", status_code |-> 0]

\* handle404 is not running
HandleIdle ==
    /\ handleArgs = <<>> /\ alt = <<>> /\ exception = "" /\ predicate = ""
    /\ handlePc = "idle" /\ handleOut = NoOutcome /\ handleCalled = <<>>

\* a response of url_call: None, a list with its items, a dict with its keys,
\* or an int
ResponseOf(type, items) == [type |-> type, items |-> items]

NoneResponse == ResponseOf("NoneType", <<>>)

\* collect_pages is not running
PagesIdle ==
    /\ url_call = <<>> /\ page = 0 /\ final_response = <<>>
    /\ response = NoneResponse /\ pagesPc = "idle" /\ requested = <<>>

\* tee is not running
TeeIdle ==
    /\ teeItems = <<>> /\ teeN = 0 /\ iterable = <<>> /\ cache = <<>>
    /\ index = <<>> /\ teePc = "idle" /\ yielded = <<>> /\ stopped = <<>>

\* what get_summary_and_error_code gives: nothing yet, a (summary,
\* error_code) pair, or the exception it raised
NoSummary == [kind |-> "", expiration_data |-> <<>>]

\* the Aqua gate check is not running
GateIdle ==
    /\ images = <<>> /\ suppressions = <<>>
    /\ fixable_image_vulnerabilities = <<>> /\ image_data = <<>>
    /\ gate_check_flag = FALSE /\ template_params = <<>>
    /\ gatePc = "idle" /\ exit_code = 0

\* the SDE gate check is not running
SdeIdle ==
    /\ projects = <<>> /\ policy = "" /\ cm_summary = 0 /\ CRM_DATA = <<>>
    /\ now = 0 /\ annotations = <<>> /\ written = <<>>
    /\ summary = NoSummary /\ error_code = 0 /\ sdePc = "idle" /\ sdeExit = 0

\* only build_string_from_template runs
OnlyTemplate == /\ EvalIdle /\ HandleIdle /\ PagesIdle /\ TeeIdle
    /\ GateIdle /\ SdeIdle

\* templates of conditional blocks and scalar placeholders
Init ==
    /\ template \in CondTemplates
    /\ replacements \in CondReplacements
    /\ Start
    /\ OnlyTemplate

\* templates with one <for items> loop
InitLoop ==
    /\ template \in LoopTemplates
    /\ replacements \in LoopReplacements
    /\ Start
    /\ OnlyTemplate

\* templates with dynamically named inner loops
InitNested ==
    /\ \/ template \in NestedTemplates /\ replacements \in NestedReplacements
       \/ template = DocTemplate /\ replacements = DocReplacements
    /\ Start
    /\ OnlyTemplate

\* templates with several <for K> tags, and keys that hold a "."
InitRegions ==
    /\ \/ template \in RegionTemplates /\ replacements \in RegionReplacements
       \/ template \in DottedTemplates /\ replacements \in DottedReplacements
    /\ Start
    /\ OnlyTemplate

\* values that hold placeholders and tags
InitValues ==
    /\ template \in ValueTemplates
    /\ replacements \in ValueReplacements
    /\ Start
    /\ OnlyTemplate

\* one iteration of the first loop over replacements.items()
ScalarStep ==
    /\ pc = "scalars"
    /\ idx <= Len(replacements)
    /\ LET item == replacements[idx]
       IN  IF ~IsList(item.val)
           THEN LET out == Replace(result, Placeholder(item.key), Str(item.val))
                IN  /\ result' = out
                    /\ calls' = Append(calls,
                                       Call("replace", item.key, result, out))
           ELSE UNCHANGED <<result, calls>>
    /\ idx' = idx + 1
    /\ UNCHANGED <<template, replacements, pc>>
    /\ UNCHANGED notTemplateVars

\* result = _evaluate_conditions(result), after the first loop
EvaluateConditionsFirst ==
    /\ pc = "scalars"
    /\ idx > Len(replacements)
    /\ LET r == _evaluate_conditions(result)
       IN  IF r.raised
           THEN /\ pc' = "raised"
                /\ UNCHANGED <<result, calls>>
           ELSE /\ pc' = "loops"
                /\ result' = r.text
                /\ calls' = Append(calls,
                                   Call("_evaluate_conditions", "", result, r.text))
    /\ idx' = 1
    /\ UNCHANGED <<template, replacements>>
    /\ UNCHANGED notTemplateVars

\* the second loop visits the items last to first
LoopStepReversed ==
    /\ pc = "loops"
    /\ idx <= Len(replacements)
    /\ LET item == replacements[Len(replacements) + 1 - idx]
       IN  IF IsList(item.val)
           THEN LET out == _replace_for_loops(result, item.key, item.val.elems)
                IN  /\ result' = out
                    /\ calls' = Append(calls,
                                       Call("_replace_for_loops", item.key, result, out))
           ELSE UNCHANGED <<result, calls>>
    /\ idx' = idx + 1
    /\ UNCHANGED <<template, replacements, pc>>
    /\ UNCHANGED notTemplateVars

\* every loop is expanded in the template, not in the text of the loop before
LoopStepOnTemplate ==
    /\ pc = "loops"
    /\ idx <= Len(replacements)
    /\ LET item == replacements[idx]
       IN  IF IsList(item.val)
           THEN LET out == _replace_for_loops(template, item.key, item.val.elems)
                IN  /\ result' = out
                    /\ calls' = Append(calls,
                                       Call("_replace_for_loops", item.key, template, out))
           ELSE UNCHANGED <<result, calls>>
    /\ idx' = idx + 1
    /\ UNCHANGED <<template, replacements, pc>>
    /\ UNCHANGED notTemplateVars

\* one iteration of the second loop over replacements.items()
LoopStep ==
    /\ pc = "loops"
    /\ idx <= Len(replacements)
    /\ LET item == replacements[idx]
       IN  IF IsList(item.val)
           THEN LET out == _replace_for_loops(result, item.key, item.val.elems)
                IN  /\ result' = out
                    /\ calls' = Append(calls,
                                       Call("_replace_for_loops", item.key, result, out))
           ELSE UNCHANGED <<result, calls>>
    /\ idx' = idx + 1
    /\ UNCHANGED <<template, replacements, pc>>
    /\ UNCHANGED notTemplateVars

\* the function returns after the loops, without the second pass
ReturnWithoutSecondPass ==
    /\ pc = "loops"
    /\ idx > Len(replacements)
    /\ pc' = "done"
    /\ UNCHANGED <<template, replacements, result, idx, calls>>
    /\ UNCHANGED notTemplateVars

\* result = _evaluate_conditions(result); return result
EvaluateConditionsSecond ==
    /\ pc = "loops"
    /\ idx > Len(replacements)
    /\ LET r == _evaluate_conditions(result)
       IN  IF r.raised
           THEN /\ pc' = "raised"
                /\ UNCHANGED <<result, calls>>
           ELSE /\ pc' = "done"
                /\ result' = r.text
                /\ calls' = Append(calls,
                                   Call("_evaluate_conditions", "", result, r.text))
    /\ UNCHANGED <<template, replacements, idx>>
    /\ UNCHANGED notTemplateVars

Next ==
    \/ ScalarStep
    \/ EvaluateConditionsFirst
    \/ LoopStep
    \/ EvaluateConditionsSecond

Spec == Init /\ [][Next]_vars

SpecLoop == InitLoop /\ [][Next]_vars

SpecNested == InitNested /\ [][Next]_vars

SpecRegions == InitRegions /\ [][Next]_vars

SpecValues == InitValues /\ [][Next]_vars

(***************************************************************************)
(* _evaluate_conditions on its own, one action per findall, per replace    *)
(* and per loop exit.  Its texts are put together from whole tags and from *)
(* pieces of tags, so that removing a region can bring two pieces          *)
(* together.                                                               *)
(***************************************************************************)

\* the longest text given to _evaluate_conditions, in fragments
MaxEvalFrags == 4

EvalFrags ==
    {"X", "<if False>", "</if False>", "<if True>", "</if True>",
     "<if Fal", "se>", "<if Tr", "ue>"}

EvalTexts == Texts(EvalFrags, MaxEvalFrags)

\* build_string_from_template is not running
TemplateIdle ==
    /\ template = "" /\ replacements = <<>> /\ result = ""
    /\ pc = "idle" /\ idx = 0 /\ calls = <<>>

\* only _evaluate_conditions runs
OnlyEval == /\ TemplateIdle /\ HandleIdle /\ PagesIdle /\ TeeIdle
    /\ GateIdle /\ SdeIdle

\* before the call
InitEval == EvalIdle /\ OnlyEval

\* the call _evaluate_conditions(result), with any of the texts
EvaluateConditionsCall ==
    /\ evalPc = "idle"
    /\ \E t \in EvalTexts :
          /\ evalInput' = t
          /\ evalResult' = t
    /\ evalPc' = "false_loop"
    /\ UNCHANGED <<evalConds, evalPrev>>
    /\ UNCHANGED notEvalVars

\* while result.find("<if False>") != -1: false_if_conditions = re.findall(...)
\* and the raise when it is empty
FalseFindAll ==
    /\ evalPc = "false_loop"
    /\ Contains(evalResult, IfFalseOpen)
    /\ evalConds' = FalseConditions(evalResult)
    /\ evalPc' = IF evalConds' = <<>> THEN "raised" ELSE "false_for"
    /\ evalPrev' = evalResult
    /\ UNCHANGED <<evalInput, evalResult>>
    /\ UNCHANGED notEvalVars

\* for condition in false_if_conditions:
\*     result = result.replace(condition[0], "")
FalseReplace ==
    /\ evalPc = "false_for"
    /\ evalConds # <<>>
    /\ evalResult' = Replace(evalResult, evalConds[1][1], "")
    /\ evalConds' = Tail(evalConds)
    /\ evalPc' = IF evalConds' = <<>> THEN "false_loop" ELSE "false_for"
    /\ UNCHANGED <<evalInput, evalPrev>>
    /\ UNCHANGED notEvalVars

\* the first while loop ends
FalseLoopExit ==
    /\ evalPc = "false_loop"
    /\ ~Contains(evalResult, IfFalseOpen)
    /\ evalPc' = "true_loop"
    /\ UNCHANGED <<evalInput, evalResult, evalConds, evalPrev>>
    /\ UNCHANGED notEvalVars

\* a findall that finds no region goes back to the loop test
TrueFindAllNotRaising ==
    /\ evalPc = "true_loop"
    /\ Contains(evalResult, IfTrueOpen)
    /\ evalConds' = TrueConditions(evalResult)
    /\ evalPc' = IF evalConds' = <<>> THEN "true_loop" ELSE "true_for"
    /\ evalPrev' = evalResult
    /\ UNCHANGED <<evalInput, evalResult>>
    /\ UNCHANGED notEvalVars

\* while result.find("<if True>") != -1: true_if_conditions = re.findall(...)
\* and the raise when it is empty
TrueFindAll ==
    /\ evalPc = "true_loop"
    /\ Contains(evalResult, IfTrueOpen)
    /\ evalConds' = TrueConditions(evalResult)
    /\ evalPc' = IF evalConds' = <<>> THEN "raised" ELSE "true_for"
    /\ evalPrev' = evalResult
    /\ UNCHANGED <<evalInput, evalResult>>
    /\ UNCHANGED notEvalVars

\* the region is put in place of itself: replace(condition[0], condition[0])
TrueReplaceKeepingTags ==
    /\ evalPc = "true_for"
    /\ evalConds # <<>>
    /\ evalResult' = Replace(evalResult, evalConds[1][1], evalConds[1][1])
    /\ evalConds' = Tail(evalConds)
    /\ evalPc' = IF evalConds' = <<>> THEN "true_loop" ELSE "true_for"
    /\ UNCHANGED <<evalInput, evalPrev>>
    /\ UNCHANGED notEvalVars

\* for condition in true_if_conditions:
\*     result = result.replace(condition[0], condition[1])
TrueReplace ==
    /\ evalPc = "true_for"
    /\ evalConds # <<>>
    /\ evalResult' = Replace(evalResult, evalConds[1][1], evalConds[1][2])
    /\ evalConds' = Tail(evalConds)
    /\ evalPc' = IF evalConds' = <<>> THEN "true_loop" ELSE "true_for"
    /\ UNCHANGED <<evalInput, evalPrev>>
    /\ UNCHANGED notEvalVars

\* the function returns after the first iteration of the second loop
TrueLoopExitEarly ==
    /\ evalPc = "true_loop"
    /\ evalResult # evalInput \/ ~Contains(evalResult, IfTrueOpen)
    /\ evalPc' = "returned"
    /\ UNCHANGED <<evalInput, evalResult, evalConds, evalPrev>>
    /\ UNCHANGED notEvalVars

\* the second while loop ends: return result
TrueLoopExit ==
    /\ evalPc = "true_loop"
    /\ ~Contains(evalResult, IfTrueOpen)
    /\ evalPc' = "returned"
    /\ UNCHANGED <<evalInput, evalResult, evalConds, evalPrev>>
    /\ UNCHANGED notEvalVars

\* the steps of the body of _evaluate_conditions
EvalSteps ==
    \/ FalseFindAll
    \/ FalseReplace
    \/ FalseLoopExit
    \/ TrueFindAll
    \/ TrueReplace
    \/ TrueLoopExit

NextEval ==
    \/ EvaluateConditionsCall
    \/ EvalSteps

SpecEval == InitEval /\ [][NextEval]_vars

\* the interpreter runs a called function on: a step of the body that can be
\* taken is taken
SpecEvalFair == SpecEval /\ WF_vars(EvalSteps)

(***************************************************************************)
(* handle404 and handle_repeat_exception.  An alternative is a function of *)
(* no arguments; what matters of it is what calling it does: it returns a  *)
(* value (not None) or raises an exception, an APIException with its       *)
(* status_code or an exception of another class derived from Exception.    *)
(***************************************************************************)

\* the most alternatives of a call
MaxAlts == 3

\* the value None
None == AltReturns("None")

AltOutcomes ==
    {AltReturns("v"), AltReturns("w"),
     AltRaises("APIException", 404), AltRaises("APIException", 500),
     AltRaises("ValueError", 0)}

AltLists == Lists(AltOutcomes, MaxAlts)

\* isinstance(e, cls) for the classes at hand: both derive from Exception
IsInstance(e, cls) == cls = "Exception" \/ e.class = cls

\* predicate(e): lambda e: e.status_code == 404, or the default lambda e: True
Satisfies(e, pred) ==
    IF pred = "status_code == 404" THEN e.status_code = 404 ELSE TRUE

\* only handle404 runs
OnlyHandle == /\ TemplateIdle /\ EvalIdle /\ PagesIdle /\ TeeIdle
    /\ GateIdle /\ SdeIdle

InitHandle == HandleIdle /\ OnlyHandle

\* handle404(*alt): handle_repeat_exception(*alt, exception=APIException,
\*                                         predicate=lambda e: e.status_code == 404)
Handle404Call ==
    /\ handlePc = "idle"
    /\ \E a \in AltLists :
          /\ handleArgs' = a
          /\ alt' = a
    /\ exception' = "APIException"
    /\ predicate' = "status_code == 404"
    /\ handlePc' = "frame"
    /\ UNCHANGED <<handleOut, handleCalled>>
    /\ UNCHANGED notHandleVars

\* if len(alt) == 0: return None
HandleNoAlternative ==
    /\ handlePc = "frame"
    /\ Len(alt) = 0
    /\ handlePc' = "returned"
    /\ handleOut' = None
    /\ UNCHANGED <<handleArgs, alt, exception, predicate, handleCalled>>
    /\ UNCHANGED notHandleVars

\* return alt[0]()
HandleAlternativeReturns ==
    /\ handlePc = "frame"
    /\ Len(alt) > 0
    /\ alt[1].kind = "returns"
    /\ handlePc' = "returned"
    /\ handleOut' = alt[1]
    /\ handleCalled' = Append(handleCalled, alt[1])
    /\ UNCHANGED <<handleArgs, alt, exception, predicate>>
    /\ UNCHANGED notHandleVars

\* except exception as e: if predicate(e):
\*     return handle_repeat_exception(*alt[1:])
\* the new frame has the defaults exception=Exception, predicate=lambda e: True
HandleNextAlternative ==
    /\ handlePc = "frame"
    /\ Len(alt) > 0
    /\ alt[1].kind = "raises"
    /\ IsInstance(alt[1], exception)
    /\ Satisfies(alt[1], predicate)
    /\ alt' = Tail(alt)
    /\ exception' = "Exception"
    /\ predicate' = "True"
    /\ handleCalled' = Append(handleCalled, alt[1])
    /\ UNCHANGED <<handleArgs, handlePc, handleOut>>
    /\ UNCHANGED notHandleVars

\* the exception is not of the class (it is not caught), or it is and the
\* predicate fails (raise); either way it passes through the frames above
HandleRaise ==
    /\ handlePc = "frame"
    /\ Len(alt) > 0
    /\ alt[1].kind = "raises"
    /\ ~(IsInstance(alt[1], exception) /\ Satisfies(alt[1], predicate))
    /\ handlePc' = "raised"
    /\ handleOut' = alt[1]
    /\ handleCalled' = Append(handleCalled, alt[1])
    /\ UNCHANGED <<handleArgs, alt, exception, predicate>>
    /\ UNCHANGED notHandleVars

NextHandle ==
    \/ Handle404Call
    \/ HandleNoAlternative
    \/ HandleAlternativeReturns
    \/ HandleNextAlternative
    \/ HandleRaise

SpecHandle == InitHandle /\ [][NextHandle]_vars

(***************************************************************************)
(* collect_pages.  url_call is given by the response of each page; a page  *)
(* past the last one given gets None.  A response is None, a list, or a    *)
(* value of another type: a dict (len and += work on it, += appends its    *)
(* keys) or an int (len raises TypeError).                                 *)
(***************************************************************************)

\* the most pages with a response of their own
MaxPages == 3

Responses ==
    {NoneResponse,
     ResponseOf("list", <<>>), ResponseOf("list", <<"a">>),
     ResponseOf("list", <<"b", "c">>),
     ResponseOf("dict", <<>>), ResponseOf("dict", <<"k">>),
     ResponseOf("int", <<>>)}

UrlCalls == Lists(Responses, MaxPages)

\* url_call(p)
ResponseAt(u, p) == IF p <= Len(u) THEN u[p] ELSE NoneResponse

\* only collect_pages runs
OnlyPages == /\ TemplateIdle /\ EvalIdle /\ HandleIdle /\ TeeIdle
    /\ GateIdle /\ SdeIdle

InitPages == PagesIdle /\ OnlyPages

\* page = 1; final_response = []; response = url_call(page)
CollectPagesCall ==
    /\ pagesPc = "idle"
    /\ \E u \in UrlCalls :
          /\ url_call' = u
          /\ response' = ResponseAt(u, 1)
    /\ page' = 1
    /\ final_response' = <<>>
    /\ requested' = <<1>>
    /\ pagesPc' = "check"
    /\ UNCHANGED notPagesVars

\* if response is not None and not isinstance(response, list): raise Exception
CheckFirstResponse ==
    /\ pagesPc = "check"
    /\ pagesPc' = IF response.type \notin {"NoneType", "list"}
                  THEN "raised" ELSE "while"
    /\ UNCHANGED <<url_call, page, final_response, response, requested>>
    /\ UNCHANGED notPagesVars

\* while response is not None and len(response) > 0: len of an int raises
LenRaises ==
    /\ pagesPc = "while"
    /\ response.type = "int"
    /\ pagesPc' = "raised"
    /\ UNCHANGED <<url_call, page, final_response, response, requested>>
    /\ UNCHANGED notPagesVars

\* final_response += response; page += 1; response = url_call(page)
NextPage ==
    /\ pagesPc = "while"
    /\ response.type \notin {"NoneType", "int"}
    /\ Len(response.items) > 0
    /\ final_response' = final_response \o response.items
    /\ page' = page + 1
    /\ response' = ResponseAt(url_call, page + 1)
    /\ requested' = Append(requested, page + 1)
    /\ UNCHANGED <<url_call, pagesPc>>
    /\ UNCHANGED notPagesVars

\* the while test fails: return final_response
ReturnFinalResponse ==
    /\ pagesPc = "while"
    /\ \/ response.type = "NoneType"
       \/ response.type \notin {"NoneType", "int"} /\ Len(response.items) = 0
    /\ pagesPc' = "returned"
    /\ UNCHANGED <<url_call, page, final_response, response, requested>>
    /\ UNCHANGED notPagesVars

NextPages ==
    \/ CollectPagesCall
    \/ CheckFirstResponse
    \/ LenRaises
    \/ NextPage
    \/ ReturnFinalResponse

SpecPages == InitPages /\ [][NextPages]_vars

(***************************************************************************)
(* tee.  The n TeeGenerator objects share the source iterator and the      *)
(* caches; a call of next() on one of them runs to its end before the next *)
(* call starts, and the calls on the n objects come in any order.  An      *)
(* object whose next() has raised StopIteration is not called again (a for *)
(* loop over it has ended).                                                *)
(***************************************************************************)

\* the most items of the source and the most iterators
MaxItems == 4
MaxTee == 2

\* the source gives the items 1, 2, ..., k
Sources == {[j \in 1..k |-> j] : k \in 0..MaxItems}

\* range(n)
Range(m) == 0..(m - 1)

\* only tee runs
OnlyTee == /\ TemplateIdle /\ EvalIdle /\ HandleIdle /\ PagesIdle
    /\ GateIdle /\ SdeIdle

InitTee == TeeIdle /\ OnlyTee

\* a, b, ... = tee(iterable, n): the caches are empty, every index is 0
TeeCall ==
    /\ teePc = "idle"
    /\ \E src \in Sources :
          /\ teeItems' = src
          /\ iterable' = src
    /\ \E m \in 1..MaxTee :
          /\ teeN' = m
          /\ cache' = [i \in Range(m) |-> <<>>]
          /\ index' = [i \in Range(m) |-> 0]
          /\ yielded' = [i \in Range(m) |-> <<>>]
          /\ stopped' = [i \in Range(m) |-> FALSE]
    /\ teePc' = "iterating"
    /\ UNCHANGED notTeeVars

\* if my_cache and self.index < len(my_cache)
FromCache(i) == cache[i] # <<>> /\ index[i] < Len(cache[i])

\* return my_cache.pop(0)
NextFromCache ==
    \E i \in Range(teeN) :
      /\ teePc = "iterating"
      /\ ~stopped[i]
      /\ FromCache(i)
      /\ yielded' = [yielded EXCEPT ![i] = Append(@, Head(cache[i]))]
      /\ cache' = [cache EXCEPT ![i] = Tail(@)]
      /\ UNCHANGED <<teeItems, teeN, iterable, index, teePc, stopped>>
      /\ UNCHANGED notTeeVars

\* next_item = next(iterable); the other caches get it; self.index += 1;
\* return next_item
NextFromIterable ==
    \E i \in Range(teeN) :
      /\ teePc = "iterating"
      /\ ~stopped[i]
      /\ ~FromCache(i)
      /\ iterable # <<>>
      /\ iterable' = Tail(iterable)
      /\ cache' = [j \in Range(teeN) |->
                      IF j # i THEN Append(cache[j], Head(iterable)) ELSE cache[j]]
      /\ index' = [index EXCEPT ![i] = @ + 1]
      /\ yielded' = [yielded EXCEPT ![i] = Append(@, Head(iterable))]
      /\ UNCHANGED <<teeItems, teeN, teePc, stopped>>
      /\ UNCHANGED notTeeVars

\* next(iterable) raises StopIteration, which next() lets through
NextStops ==
    \E i \in Range(teeN) :
      /\ teePc = "iterating"
      /\ ~stopped[i]
      /\ ~FromCache(i)
      /\ iterable = <<>>
      /\ stopped' = [stopped EXCEPT ![i] = TRUE]
      /\ UNCHANGED <<teeItems, teeN, iterable, cache, index, teePc, yielded>>
      /\ UNCHANGED notTeeVars

NextTee ==
    \/ TeeCall
    \/ NextFromCache
    \/ NextFromIterable
    \/ NextStops

SpecTee == InitTee /\ [][NextTee]_vars

(***************************************************************************)
(* What the claims speak of, stated without the engine's rewriting: the    *)
(* bindings of a mapping, and a text with its bound placeholders filled in *)
(* in one left-to-right reading.                                           *)
(***************************************************************************)

\* build_string_from_template has returned or raised
Finished == pc \in {"done", "raised"}

HasKey(items, k) == \E i \in DOMAIN items : items[i].key = k

ValueOf(items, k) == items[CHOOSE i \in DOMAIN items : items[i].key = k].val

\* the scalar binding whose placeholder stands at position p of s, 0 if none
BoundAt(s, p, items) ==
    LET is == {i \in DOMAIN items :
                 /\ ~IsList(items[i].val)
                 /\ StartsWithAt(s, p, Placeholder(items[i].key))}
    IN  IF is = {} THEN 0 ELSE CHOOSE i \in is : TRUE

\* s from position p on, every placeholder of a scalar binding of items
\* replaced by the string form of its value, everything else kept: the text
\* is read once, left to right, from one "{{ " to the next
RECURSIVE FilledFrom(_, _, _)
FilledFrom(s, p, items) ==
    LET q == Find(s, "{{ ", p)
    IN  IF q = 0 THEN Suffix(s, p)
        ELSE LET i == BoundAt(s, q, items)
             IN  IF i = 0
                 THEN SubSeq(s, p, q) \o FilledFrom(s, q + 1, items)
                 ELSE SubSeq(s, p, q - 1) \o Str(items[i].val)
                      \o FilledFrom(s, q + Len(Placeholder(items[i].key)), items)

Filled(s, items) == FilledFrom(s, 1, items)

\* the text has no conditional or loop tag
TagFree(s) ==
    /\ ~Contains(s, "<if ") /\ ~Contains(s, "</if ")
    /\ ~Contains(s, "<for ") /\ ~Contains(s, "</for ")

\* the text between the first occurrence of open and the next close after
\* it; used only on texts where both occur
Inside(s, open, close) ==
    LET p == Find(s, open, 1)
        e == Find(s, close, p + Len(open))
    IN  SubSeq(s, p + Len(open), e - 1)

Before(s, open) == SubSeq(s, 1, Find(s, open, 1) - 1)

After(s, open, close) ==
    LET p == Find(s, open, 1)
        e == Find(s, close, p + Len(open))
    IN  Suffix(s, e + Len(close))

(***************************************************************************)
(* C1.  A conditional block <if {{ b }}>BODY</if {{ b }}> with b a boolean *)
(* binding and BODY free of tags renders BODY (its bound placeholders      *)
(* filled in) when b is True and the empty text when b is False; rendering *)
(* does not fail and no tag is left.                                       *)
(***************************************************************************)

IsCondBlock ==
    /\ StartsWithAt(template, 1, "<if {{ b }}>")
    /\ StartsWithAt(template, Len(template) - 12, "</if {{ b }}>")
    /\ Len(template) >= 25
    /\ TagFree(SubSeq(template, 13, Len(template) - 13))
    /\ HasKey(replacements, "b")

CondBlockBody == SubSeq(template, 13, Len(template) - 13)

C1_BooleanBranchSelection ==
    (Finished /\ IsCondBlock) =>
        /\ pc = "done"
        /\ result = IF ValueOf(replacements, "b").b
                    THEN Filled(CondBlockBody, replacements)
                    ELSE ""

C1_Witness ==
    /\ IsCondBlock
    /\ pc = "done"
    /\ CondBlockBody = "X"
    /\ ValueOf(replacements, "b").b
    /\ result = "X"

(***************************************************************************)
(* Loop regions and their expected expansion.                              *)
(***************************************************************************)

\* the text holds a region <for key>...</for key>
HasRegion(s, key) ==
    /\ Contains(s, ForOpen(key))
    /\ Find(s, ForClose(key), Find(s, ForOpen(key), 1) + Len(ForOpen(key))) # 0

RegionBody(s, key)   == Inside(s, ForOpen(key), ForClose(key))
RegionBefore(s, key) == Before(s, ForOpen(key))
RegionAfter(s, key)  == After(s, ForOpen(key), ForClose(key))

\* the concatenation of a sequence of texts
RECURSIVE Cat(_)
Cat(ts) == IF ts = <<>> THEN "" ELSE ts[1] \o Cat(Tail(ts))

\* one instance of body per element, in list order, the placeholders of the
\* element's names filled in
Instances(body, elems) == Cat([i \in DOMAIN elems |-> Filled(body, elems[i])])

ItemsElems == ValueOf(replacements, "items").elems

\* the call made last (every call is the last one in the state it leads to,
\* so what holds of the last call in every state holds of every call)
LastCall ==
    IF calls = <<>> THEN Call("", "", "", "") ELSE calls[Len(calls)]

(***************************************************************************)
(* C2.  _replace_for_loops replaces the region <for K>BODY</for K> (tags   *)
(* and body) by the instances of BODY, one per element of the list and in  *)
(* list order, each {{ name }} filled with the string form of the          *)
(* element's value; the empty list leaves the empty text.  For a body      *)
(* without conditionals this is also what the template renders to.         *)
(***************************************************************************)

C2_ListExpansion ==
    /\ (LastCall.fn = "_replace_for_loops" /\ HasRegion(LastCall.arg, LastCall.key)) =>
          LastCall.out =
              RegionBefore(LastCall.arg, LastCall.key)
              \o Instances(RegionBody(LastCall.arg, LastCall.key),
                           ValueOf(replacements, LastCall.key).elems)
              \o RegionAfter(LastCall.arg, LastCall.key)
    /\ (/\ Finished
        /\ HasRegion(template, "items")
        /\ TagFree(RegionBody(template, "items"))) =>
          /\ pc = "done"
          /\ result = Filled(RegionBefore(template, "items"), replacements)
                      \o Instances(RegionBody(template, "items"), ItemsElems)
                      \o RegionAfter(template, "items")

C2_Witness ==
    /\ pc = "done"
    /\ template = "<for items>{{ n }},</for items>Z"
    /\ Len(ItemsElems) = 2
    /\ result = "1,Y,Z"

(***************************************************************************)
(* C4.  A conditional <if {{ flag }}>X</if {{ flag }}> in a loop body,     *)
(* flag being a boolean field of the element, is resolved per instance by  *)
(* the second conditional pass: instance i holds X exactly when flag is    *)
(* True in element i, and no tag of the conditional is left.               *)
(***************************************************************************)

FlagOpen  == "<if {{ flag }}>"
FlagClose == "</if {{ flag }}>"

\* the loop body is B1 <if {{ flag }}> B2 </if {{ flag }}> B3, B1..B3 tag free
HasFlagBlock ==
    /\ HasRegion(template, "items")
    /\ LET body == RegionBody(template, "items")
       IN  /\ Count(body, FlagOpen) = 1
           /\ Count(body, FlagClose) = 1
           /\ Find(body, FlagOpen, 1) < Find(body, FlagClose, 1)

FlagInstance(body, e) ==
    Filled(Before(body, FlagOpen), e)
    \o (IF ValueOf(e, "flag").b THEN Filled(Inside(body, FlagOpen, FlagClose), e) ELSE "")
    \o Filled(After(body, FlagOpen, FlagClose), e)

C4_ConditionalPerInstance ==
    (Finished /\ HasFlagBlock) =>
        /\ pc = "done"
        /\ result = Filled(RegionBefore(template, "items"), replacements)
                    \o Cat([i \in DOMAIN ItemsElems |->
                              FlagInstance(RegionBody(template, "items"), ItemsElems[i])])
                    \o RegionAfter(template, "items")

C4_Witness ==
    /\ pc = "done"
    /\ template = "<for items><if {{ flag }}>{{ n }},</if {{ flag }}></for items>Z"
    /\ Len(ItemsElems) = 2
    /\ ItemsElems[1] # ItemsElems[2]
    /\ result = "1,Z"

(***************************************************************************)
(* C3.  Nested dynamic loops.  When the outer list binding is inserted     *)
(* before the inner list bindings and each outer element names its own     *)
(* inner list in a field used as <for {{ field }}>...</for {{ field }}>,   *)
(* every outer instance carries the expansion of its inner list, in        *)
(* element order: "Av1v2" for outer=[{inner_key: grp1, title: A}],         *)
(* grp1=[{x: v1}, {x: v2}]; First Set/Bob/Alice then Second Set/Charlie/   *)
(* Diane for the example of the docstring.                                 *)
(***************************************************************************)

KeyIndex(k) == CHOOSE i \in DOMAIN replacements : replacements[i].key = k

\* the outer list is inserted before every inner list
OuterFirst(outer, inner) ==
    \A g \in inner : HasKey(replacements, g) => KeyIndex(outer) < KeyIndex(g)

\* no two outer elements name the same inner list
OwnInnerLists(outerElems, field) ==
    \A i, j \in DOMAIN outerElems :
        ValueOf(outerElems[i], field) = ValueOf(outerElems[j], field) => i = j

\* the values of one field of the elements of the list bound to g
FieldsOf(g, field) ==
    LET es == ValueOf(replacements, g).elems
    IN  [j \in DOMAIN es |-> Str(ValueOf(es[j], field))]

\* each text of ts between pre and post
Wrapped(pre, ts, post) == [j \in DOMAIN ts |-> pre \o ts[j] \o post]

\* what a nested template is to render to, instance by instance
NestedExpected ==
    LET o == ValueOf(replacements, "outer").elems
        title(i) == Str(ValueOf(o[i], "title"))
        xs(i) == FieldsOf(Str(ValueOf(o[i], "inner_key")), "x")
    IN  CASE template = TitleFirstTemplate ->
               Cat([i \in DOMAIN o |-> title(i) \o Cat(xs(i))])
          [] template = TitleLastTemplate ->
               Cat([i \in DOMAIN o |->
                      "[" \o Cat(Wrapped("", xs(i), ",")) \o title(i) \o "]"])
          [] template = TitleInsideTemplate ->
               Cat([i \in DOMAIN o |-> Cat(Wrapped(title(i), xs(i), ";"))])

DocExpected ==
    LET o == ValueOf(replacements, "top_level").elems
    IN  "\n"
        \o Cat([i \in DOMAIN o |->
                  "\n" \o Str(ValueOf(o[i], "title")) \o "\n"
                  \o Cat(Wrapped("\nHi! My name is ",
                                 FieldsOf(Str(ValueOf(o[i], "for_key")), "name"),
                                 ".\n"))
                  \o "\n"])
        \o "\n"

C3_NestedDynamicLoops ==
    /\ (/\ Finished
        /\ template \in NestedTemplates
        /\ OuterFirst("outer", {"grp1", "grp2"})
        /\ OwnInnerLists(ValueOf(replacements, "outer").elems, "inner_key")) =>
           /\ pc = "done"
           /\ result = NestedExpected
    /\ (Finished /\ template = DocTemplate) =>
           /\ pc = "done"
           /\ result = DocExpected

C3_Witness ==
    /\ pc = "done"
    /\ template = TitleFirstTemplate
    /\ OuterFirst("outer", {"grp1", "grp2"})
    /\ Len(ValueOf(replacements, "outer").elems) = 2
    /\ OwnInnerLists(ValueOf(replacements, "outer").elems, "inner_key")
    /\ Len(ValueOf(replacements, "grp1").elems) = 2
    /\ Len(ValueOf(replacements, "grp2").elems) = 1
    /\ result \in {"Av1v2Bw1", "Bw1Av1v2", "Bw1Bv1v2", "Bv1v2Bw1"}

C3_WitnessSpecExample ==
    /\ pc = "done"
    /\ template = TitleFirstTemplate
    /\ OuterFirst("outer", {"grp1", "grp2"})
    /\ result = "Av1v2"

C3_WitnessDocExample ==
    /\ pc = "done"
    /\ template = DocTemplate
    /\ result = "\n\nFirst Set\n\nHi! My name is Bob.\n\nHi! My name is Alice.\n\n\nSecond Set\n\nHi! My name is Charlie.\n\nHi! My name is Diane.\n\n\n"

(***************************************************************************)
(* C5.  A text with an <if True> or <if False> opener that has no closer   *)
(* of its keyword after it never comes back from _evaluate_conditions:     *)
(* the render fails.                                                       *)
(***************************************************************************)

\* some opener of the keyword has no closer after it
HasOrphan(s, open, close) ==
    \E p \in 1..Len(s) :
        /\ StartsWithAt(s, p, open)
        /\ Find(s, close, p + Len(open)) = 0

HasOrphanOpener(s) ==
    \/ HasOrphan(s, IfTrueOpen, IfTrueClose)
    \/ HasOrphan(s, IfFalseOpen, IfFalseClose)

C5_OrphanOpenerFails ==
    \A i \in DOMAIN calls :
        calls[i].fn = "_evaluate_conditions" => ~HasOrphanOpener(calls[i].arg)

(***************************************************************************)
(* C6.  A template with a <for K> opener and no </for K> closer, K being a *)
(* list binding, is never rendered: the render fails.                      *)
(***************************************************************************)

HasUnclosedFor(s, key) ==
    /\ Contains(s, ForOpen(key))
    /\ ~HasRegion(s, key)

C6_UnclosedForFails ==
    (HasUnclosedFor(template, "items") /\ IsList(ValueOf(replacements, "items"))) =>
        pc # "done"

(***************************************************************************)
(* C7.  As claimed: a returned text holds no {{ name }} placeholder, no    *)
(* <if ...> or </if ...> tag and no <for ...> or </for ...> tag.           *)
(***************************************************************************)

C7_NoMarkerRemains ==
    pc = "done" =>
        /\ ~Contains(result, "{{ ")
        /\ ~Contains(result, "<if ") /\ ~Contains(result, "</if ")
        /\ ~Contains(result, "<for ") /\ ~Contains(result, "</for ")

(***************************************************************************)
(* C7, amended.  A returned text holds no <if True> opener.                *)
(***************************************************************************)

C7_NoTrueOpenerRemains == pc = "done" => ~Contains(result, IfTrueOpen)

C7_Witness ==
    /\ pc = "done"
    /\ template = "<if {{ b }}>{{ u }}</if {{ b }}>"
    /\ HasKey(replacements, "b")
    /\ result = "{{ u }}"

(***************************************************************************)
(* C8.  A placeholder {{ u }} whose name is bound neither at the top level *)
(* nor in the elements of the enclosing loop stays as it is: the scalar    *)
(* pass leaves every occurrence, every instance of a loop body carries the *)
(* occurrences of the body, and it is never the reason of a failure.       *)
(***************************************************************************)

Unbound == "{{ u }}"

C8_UnboundPlaceholderStays ==
    /\ LastCall.fn = "replace" =>
          Count(LastCall.out, Unbound) = Count(LastCall.arg, Unbound)
    /\ (LastCall.fn = "_replace_for_loops" /\ HasRegion(LastCall.arg, LastCall.key)) =>
          Count(LastCall.out, Unbound) =
              Count(RegionBefore(LastCall.arg, LastCall.key), Unbound)
              + Len(ValueOf(replacements, LastCall.key).elems)
                * Count(RegionBody(LastCall.arg, LastCall.key), Unbound)
              + Count(RegionAfter(LastCall.arg, LastCall.key), Unbound)
    /\ pc = "raised" => Contains(result, IfTrueOpen) \/ Contains(result, IfFalseOpen)
    /\ (/\ Finished
        /\ HasRegion(template, "items")
        /\ TagFree(RegionBody(template, "items"))) =>
          /\ pc = "done"
          /\ Count(result, Unbound) =
                Count(RegionBefore(template, "items"), Unbound)
                + Len(ItemsElems) * Count(RegionBody(template, "items"), Unbound)

C8_Witness ==
    /\ pc = "done"
    /\ template = "{{ a }}{{ u }}<for items>{{ u }}{{ n }},</for items>Z"
    /\ Len(ItemsElems) = 2
    /\ result = "W{{ u }}{{ u }}1,{{ u }}Y,Z"

(***************************************************************************)
(* C9.  The scalar pass replaces every occurrence of the exact token       *)
(* {{ name }} of every top-level binding that is not a list by str(value)  *)
(* and nothing else: {{ ab }} is not touched by the binding of a.          *)
(***************************************************************************)

ScalarPassDone == pc = "scalars" /\ idx > Len(replacements)

C9_ScalarSubstitution ==
    /\ ScalarPassDone => result = Filled(template, replacements)
    /\ (Finished /\ TagFree(template)) =>
          /\ pc = "done"
          /\ result = Filled(template, replacements)

C9_Witness ==
    /\ pc = "done"
    /\ template = "{{ a }}{{ ab }}{{ a }}"
    /\ HasKey(replacements, "a")
    /\ result = "Y{{ ab }}Y"

(***************************************************************************)
(* C10.  The order of the calls build_string_from_template makes: the      *)
(* scalar replacements, then _evaluate_conditions, then _replace_for_loops *)
(* once per list binding in the insertion order of the mapping, then       *)
(* _evaluate_conditions; each call takes the text the call before it       *)
(* produced.                                                               *)
(***************************************************************************)

IsListItem(item) == IsList(item.val)
IsScalarItem(item) == ~IsList(item.val)

KeysOf(items) == [i \in DOMAIN items |-> items[i].key]

Named(fn, keys) == [i \in DOMAIN keys |-> <<fn, keys[i]>>]

\* the calls of a complete render, as <<function, key>>
ExpectedCalls ==
    Named("replace", KeysOf(SelectSeq(replacements, IsScalarItem)))
    \o << <<"_evaluate_conditions", "">> >>
    \o Named("_replace_for_loops", KeysOf(SelectSeq(replacements, IsListItem)))
    \o << <<"_evaluate_conditions", "">> >>

C10_OrderOfPasses ==
    /\ Len(calls) <= Len(ExpectedCalls)
    /\ \A i \in DOMAIN calls :
          /\ <<calls[i].fn, calls[i].key>> = ExpectedCalls[i]
          /\ calls[i].arg = IF i = 1 THEN template ELSE calls[i - 1].out
    /\ calls # <<>> => result = calls[Len(calls)].out
    /\ pc = "done" => Len(calls) = Len(ExpectedCalls)

C10_Witness ==
    /\ pc = "done"
    /\ template = TitleLastTemplate
    /\ KeysOf(replacements) = <<"outer", "s", "grp2", "grp1">>
    /\ Len(calls) = 6
    /\ calls[3].out # calls[3].arg
    /\ calls[4].out # calls[4].arg
    /\ calls[5].out # calls[5].arg
    /\ calls[5].key = "grp1"

(***************************************************************************)
(* C11.  _evaluate_conditions terminates on every text: once called, it    *)
(* returns or raises, also on malformed, nested and interleaved tags.      *)
(***************************************************************************)

EvalCalled == evalPc # "idle"
EvalEnded  == evalPc \in {"returned", "raised"}

C11_EvaluateConditionsTerminates == EvalCalled ~> EvalEnded

\* interleaved tags: the <if False> loop resolves a region, the <if True>
\* loop then raises
C11_Witness ==
    /\ evalInput = "<if True><if False></if True></if False>"
    /\ evalPc = "raised"
    /\ evalResult = "<if True>"

(***************************************************************************)
(* C12.  As claimed: _evaluate_conditions is idempotent.  Applied to a     *)
(* text it has returned, it returns that text unchanged.                   *)
(***************************************************************************)

C12_Idempotent ==
    evalPc = "returned" => _evaluate_conditions(evalResult) = Returned(evalResult)

(***************************************************************************)
(* C12, amended.  A text _evaluate_conditions has returned holds no        *)
(* <if True> opener, and when it holds no <if False> opener either,        *)
(* _evaluate_conditions applied to it returns it unchanged.                *)
(***************************************************************************)

C12_IdempotentWithoutFalseOpener ==
    evalPc = "returned" =>
        /\ ~Contains(evalResult, IfTrueOpen)
        /\ ~Contains(evalResult, IfFalseOpen) =>
              _evaluate_conditions(evalResult) = Returned(evalResult)

C12_Witness ==
    /\ evalInput = "<if True>X</if True>X"
    /\ evalPc = "returned"
    /\ evalResult = "XX"
    /\ _evaluate_conditions(evalResult) = Returned("XX")

(***************************************************************************)
(* Texts with several regions of one key.                                  *)
(***************************************************************************)

\* the first region of the key: the leftmost opener up to its nearest closer
FirstRegion(s, key) ==
    ForOpen(key) \o RegionBody(s, key) \o ForClose(key)

\* there is another complete region after the first one
HasLaterRegion(s, key) == HasRegion(s, key) /\ HasRegion(RegionAfter(s, key), key)

\* _replace_for_loops was called for the plain key k on a text with regions
ExpandedSeveral ==
    /\ LastCall.fn = "_replace_for_loops"
    /\ LastCall.key = "k"
    /\ HasLaterRegion(LastCall.arg, "k")

\* what the first region of the last call expands to
LastExpansion ==
    Instances(RegionBody(LastCall.arg, LastCall.key),
              ValueOf(replacements, LastCall.key).elems)

(***************************************************************************)
(* C13.  As claimed: when the text holds more than one <for K> region,     *)
(* _replace_for_loops expands only the first matched region; the text      *)
(* after it, every later <for K> region included, is left unchanged.       *)
(***************************************************************************)

C13_OnlyFirstRegionExpanded ==
    ExpandedSeveral =>
        LastCall.out = RegionBefore(LastCall.arg, "k") \o LastExpansion
                       \o RegionAfter(LastCall.arg, "k")

(***************************************************************************)
(* C13, amended.  _replace_for_loops replaces the first matched region and *)
(* every later occurrence of that region's exact text by the expansion of  *)
(* the first region; the rest of the text, a later <for K> region that     *)
(* does not hold the text of the first one included, is left unchanged.    *)
(***************************************************************************)

C13_EveryCopyOfFirstRegionExpanded ==
    /\ ExpandedSeveral =>
        LET first == FirstRegion(LastCall.arg, "k")
            after == RegionAfter(LastCall.arg, "k")
        IN  /\ LastCall.out = RegionBefore(LastCall.arg, "k") \o LastExpansion
                              \o Replace(after, first, LastExpansion)
            /\ ~Contains(after, first) =>
                  LastCall.out = RegionBefore(LastCall.arg, "k") \o LastExpansion
                                 \o after
    \* whatever the key: every copy of what the regular expression matched first
    /\ (LastCall.fn = "_replace_for_loops"
        /\ FirstForMatch(LastCall.arg, LastCall.key) # <<>>) =>
          LET forMatch == FirstForMatch(LastCall.arg, LastCall.key)
          IN  LastCall.out =
                  Replace(LastCall.arg, forMatch[1],
                          Instances(forMatch[2],
                                    ValueOf(replacements, LastCall.key).elems))

\* a later region with another body stays as it is
C13_Witness ==
    /\ pc = "done"
    /\ template = "<for k>{{ n }},</for k><for k>A</for k>"
    /\ result = "1,2,<for k>A</for k>"
    /\ Len(ValueOf(replacements, "k").elems) = 2

(***************************************************************************)
(* C14.  If the text holds no complete <for K>...</for K> region for a     *)
(* list binding K, _replace_for_loops returns the text unchanged, whatever *)
(* the elements of K are (the function has no statement that raises).      *)
(***************************************************************************)

C14_NoRegionNoChange ==
    (LastCall.fn = "_replace_for_loops" /\ ~HasRegion(LastCall.arg, LastCall.key)) =>
        LastCall.out = LastCall.arg

(***************************************************************************)
(* C15.  For every template t that holds no {{ }} placeholder and no       *)
(* <if>/<for> tag, build_string_from_template(t, {}) returns t unchanged.  *)
(***************************************************************************)

\* no placeholder and no tag
IsPlain(s) == TagFree(s) /\ ~Contains(s, "{{")

C15_PlainTemplateUnchanged ==
    (Finished /\ replacements = <<>> /\ IsPlain(template)) =>
        pc = "done" /\ result = template

C15_Witness ==
    /\ pc = "done"
    /\ replacements = <<>>
    /\ template = "AAA"
    /\ result = "AAA"

(***************************************************************************)
(* C16.  handle404(f1..fn) calls the alternatives in order and moves on to *)
(* the next one only when the current one raises an APIException with      *)
(* status code 404; any other exception, of the first or of a later        *)
(* alternative, reaches the caller; the value of the first alternative     *)
(* that returns is returned, and None only when every alternative raised   *)
(* a 404 APIException.                                                     *)
(***************************************************************************)

\* what the call comes to by that rule
RECURSIVE Handled404(_)
Handled404(alts) ==
    IF alts = <<>> THEN <<"returned", None>>
    ELSE IF alts[1].kind = "returns" THEN <<"returned", alts[1]>>
    ELSE IF alts[1] = AltRaises("APIException", 404) THEN Handled404(Tail(alts))
    ELSE <<"raised", alts[1]>>

HandleEnded == handlePc \in {"returned", "raised"}

C16_OnlyNotFoundMovesOn ==
    /\ handleCalled = SubSeq(handleArgs, 1, Len(handleCalled))
    /\ HandleEnded => <<handlePc, handleOut>> = Handled404(handleArgs)

(***************************************************************************)
(* C18.  collect_pages(url_call) calls url_call with the page numbers 1,   *)
(* 2, 3, ... in increasing order, stops at the first page whose response   *)
(* is None or an empty list and requests no later page, and returns the    *)
(* responses of the pages before that one put together in page order; it   *)
(* raises when url_call returns a value that is neither None nor a list.   *)
(***************************************************************************)

\* what the call comes to by that rule, from page p on with the items acc of
\* the pages before p: how it ends, what it returns, the last page requested
RECURSIVE PagesCollected(_, _, _)
PagesCollected(u, p, acc) ==
    LET r == ResponseAt(u, p)
    IN  IF r.type \notin {"NoneType", "list"} THEN <<"raised", <<>>, p>>
        ELSE IF r.type = "NoneType" \/ r.items = <<>> THEN <<"returned", acc, p>>
        ELSE PagesCollected(u, p + 1, acc \o r.items)

PagesEnded == pagesPc \in {"returned", "raised"}

C18_PagesInOrderUntilEmpty ==
    /\ requested = [i \in 1..Len(requested) |-> i]
    /\ PagesEnded =>
          LET collected == PagesCollected(url_call, 1, <<>>)
          IN  /\ pagesPc = collected[1]
              /\ Len(requested) = collected[3]
              /\ pagesPc = "returned" => final_response = collected[2]

(***************************************************************************)
(* C17.  Each of the n iterators returned by tee(iterable, n) yields the   *)
(* items of the source, each once and in source order, whatever the order  *)
(* of the next() calls on the n iterators: what an iterator has yielded is *)
(* at every moment the beginning of the source, and the whole of it when   *)
(* the iterator stops; the source is advanced once per item, no further    *)
(* than the iterator that is furthest ahead.                               *)
(***************************************************************************)

IsPrefix(a, b) == Len(a) <= Len(b) /\ a = SubSeq(b, 1, Len(a))

\* how many items next(iterable) has given
Advanced == Len(teeItems) - Len(iterable)

C17_EveryIteratorYieldsTheSource ==
    teePc = "iterating" =>
        /\ \A i \in Range(teeN) :
              /\ IsPrefix(yielded[i], teeItems)
              /\ stopped[i] => yielded[i] = teeItems
        /\ \E i \in Range(teeN) : Advanced = Len(yielded[i])

(***************************************************************************)
(* C19.  As claimed: every iteration of the <if False> loop and of the     *)
(* <if True> loop that does not raise strictly decreases the number of     *)
(* occurrences of the loop's opener in the working text.                   *)
(***************************************************************************)

\* the step ends an iteration of the loop: the last replace of its for loop
\* leads back to the loop test (evalPrev is the text the iteration began with)
EndsIteration(for, loop) == evalPc = for /\ evalPc' = loop

C19_OpenerCountDecreases ==
    [][/\ EndsIteration("false_for", "false_loop") =>
             Count(evalResult', IfFalseOpen) < Count(evalPrev, IfFalseOpen)
       /\ EndsIteration("true_for", "true_loop") =>
             Count(evalResult', IfTrueOpen) < Count(evalPrev, IfTrueOpen)]_vars

(***************************************************************************)
(* C19, amended.  Every iteration that does not raise strictly shortens    *)
(* the working text, by at least the length of an opener and its closer.   *)
(***************************************************************************)

C19_TextShrinks ==
    [][/\ EndsIteration("false_for", "false_loop") =>
             Len(evalResult') + Len(IfFalseOpen) + Len(IfFalseClose) <= Len(evalPrev)
       /\ EndsIteration("true_for", "true_loop") =>
             Len(evalResult') + Len(IfTrueOpen) + Len(IfTrueClose) <= Len(evalPrev)]_vars

\* both loops have made an iteration
C19_Witness ==
    /\ evalInput = "<if False></if False><if True></if True>"
    /\ evalPc = "true_loop"
    /\ evalPrev = "<if True></if True>"
    /\ evalResult = ""

(***************************************************************************)
(* C20.  _replace_for_loops with key K expands only a region whose opener  *)
(* and closer carry exactly the name K, whatever characters K holds: the   *)
(* call does what matching the tags <for K> and </for K> letter by letter  *)
(* gives, and a region of a name that differs from K in any character is   *)
(* left unchanged.                                                         *)
(***************************************************************************)

\* the expansion of the first region whose tags are, as plain text, those of
\* the key; the text itself when there is none
LiterallyExpanded(s, key, elems) ==
    IF HasRegion(s, key)
    THEN Replace(s, FirstRegion(s, key), Instances(RegionBody(s, key), elems))
    ELSE s

C20_OnlyLiteralNameExpanded ==
    LastCall.fn = "_replace_for_loops" =>
        LastCall.out = LiterallyExpanded(LastCall.arg, LastCall.key,
                                         ValueOf(replacements, LastCall.key).elems)

(***************************************************************************)
(* Values as data: what a template of the form BEFORE <for k>BODY</for k>  *)
(* AFTER (or without a loop) renders to when every value is put in as it   *)
(* is, the top-level scalars outside the loop and the fields of the        *)
(* element inside it, and nothing that was put in is read again.           *)
(***************************************************************************)

ValuesAsData ==
    IF HasRegion(template, "k")
    THEN Filled(RegionBefore(template, "k"), replacements)
         \o Instances(RegionBody(template, "k"), ValueOf(replacements, "k").elems)
         \o Filled(RegionAfter(template, "k"), replacements)
    ELSE Filled(template, replacements)

\* the string values of a mapping
StringsOf(mapping) ==
    {mapping[i].val.s : i \in {j \in DOMAIN mapping : mapping[j].val.kind = "str"}}

\* the string values of the top-level scalars and of the elements of k
AllStrings ==
    StringsOf(replacements)
    \cup UNION {StringsOf(ValueOf(replacements, "k").elems[i]) :
                 i \in DOMAIN ValueOf(replacements, "k").elems}

NoPlaceholderInValues == \A v \in AllStrings : ~Contains(v, "{{")
NoTagInValues == \A v \in AllStrings : ~Contains(v, "<")

\* the placeholder of a top-level scalar stands in the loop body
ScalarNameInBody ==
    /\ HasRegion(template, "k")
    /\ \E i \in DOMAIN replacements :
          /\ ~IsList(replacements[i].val)
          /\ Contains(RegionBody(template, "k"), Placeholder(replacements[i].key))

(***************************************************************************)
(* C21.  Substituted values are inserted verbatim: a token {{ k }} in the  *)
(* string form of a value, k another bound name, is not replaced by any    *)
(* later substitution step, whatever the order of the keys.  (Values       *)
(* without tags, top-level placeholders outside the loop body.)            *)
(***************************************************************************)

C21_ValuesInsertedVerbatim ==
    (Finished /\ NoTagInValues /\ ~ScalarNameInBody) =>
        pc = "done" /\ result = ValuesAsData

(***************************************************************************)
(* C22.  The first pass replaces only placeholders outside <for> regions:  *)
(* in a loop body {{ name }} gets the value of the current element for     *)
(* name, also when a top-level scalar of that name exists.  (Values        *)
(* without placeholders and tags.)                                         *)
(***************************************************************************)

C22_ElementValueInLoopBody ==
    (Finished /\ NoTagInValues /\ NoPlaceholderInValues /\ HasRegion(template, "k")) =>
        pc = "done" /\ result = ValuesAsData

(***************************************************************************)
(* C28.  Binding values are data only: the text of a string value, also    *)
(* one that holds <if False> or </for k>, shows in the output where the    *)
(* value is substituted and changes nothing else; rendering does not fail. *)
(* Stated of one run: the output is the template with the values put in as *)
(* they are, so two runs that differ in a value differ only there.         *)
(* (Values without placeholders, top-level placeholders outside the loop   *)
(* body.)                                                                  *)
(***************************************************************************)

C28_ValuesAreDataOnly ==
    (Finished /\ NoPlaceholderInValues /\ ~ScalarNameInBody) =>
        pc = "done" /\ result = ValuesAsData

\* ---------------------------------------------------------------------------
\* Properly nested conditional regions
\* ---------------------------------------------------------------------------

\* the longest properly nested text of the calls below, counted in pieces
\* (a tag or a piece of plain text)
MaxNestTokens == 6

\* plain text between the tags: a letter, and the two halves of an opener
PlainPieces == {"X", "<if Fal", "se>"}

\* the keywords of a region, as <<opener, closer>>
Keywords == {<<IfTrueOpen, IfTrueClose>>, <<IfFalseOpen, IfFalseClose>>}

\* the texts of at most k pieces in which every opener has its closer and the
\* regions are nested in each other or lie side by side
RECURSIVE ProperTexts(_)
ProperTexts(k) ==
    IF k = 0 THEN {""}
    ELSE ProperTexts(k - 1)
         \cup {p \o w : p \in PlainPieces, w \in ProperTexts(k - 1)}
         \cup (IF k < 2 THEN {}
               ELSE UNION {{kw[1] \o u \o kw[2] \o w :
                               kw \in Keywords,
                               u \in ProperTexts(i),
                               w \in ProperTexts(k - 2 - i)} : i \in 0..(k - 2)})

\* the properly nested texts of the calls: the two halves of an opener never
\* lie side by side, where they would be an opener without a closer
NestedTexts ==
    {t \in ProperTexts(MaxNestTokens) :
        Count(t, IfFalseOpen) = Count(t, IfFalseClose)}

\* the call _evaluate_conditions(result) with a properly nested text
EvaluateConditionsCallNested ==
    /\ evalPc = "idle"
    /\ \E t \in NestedTexts :
          /\ evalInput' = t
          /\ evalResult' = t
    /\ evalPc' = "false_loop"
    /\ UNCHANGED <<evalConds, evalPrev>>
    /\ UNCHANGED notEvalVars

NextEvalNested ==
    \/ EvaluateConditionsCallNested
    \/ EvalSteps

SpecEvalNested == InitEval /\ [][NextEvalNested]_vars

\* what is left of s from position p on when everything inside a False
\* region is dropped and the tags of the True regions are stripped; depth is
\* the number of False regions open at p
RECURSIVE ResolvedFrom(_, _, _)
ResolvedFrom(s, p, depth) ==
    IF p > Len(s) THEN ""
    ELSE IF StartsWithAt(s, p, IfFalseOpen)
         THEN ResolvedFrom(s, p + Len(IfFalseOpen), depth + 1)
    ELSE IF StartsWithAt(s, p, IfFalseClose)
         THEN ResolvedFrom(s, p + Len(IfFalseClose), depth - 1)
    ELSE IF StartsWithAt(s, p, IfTrueOpen)
         THEN ResolvedFrom(s, p + Len(IfTrueOpen), depth)
    ELSE IF StartsWithAt(s, p, IfTrueClose)
         THEN ResolvedFrom(s, p + Len(IfTrueClose), depth)
    ELSE (IF depth = 0 THEN SubSeq(s, p, p) ELSE "")
             \o ResolvedFrom(s, p + 1, depth)

Resolved(s) == ResolvedFrom(s, 1, 0)

\* the text outside the tags holds no "<": every "<" opens one of the four tags
NoStrayBracket(s) ==
    Count(s, "<") = Count(s, IfTrueOpen) + Count(s, IfTrueClose)
                      + Count(s, IfFalseOpen) + Count(s, IfFalseClose)

\* a region nested in a region of the same keyword
SameKeywordNesting(s) ==
    \/ Contains(s, IfTrueOpen \o "X" \o IfTrueOpen)
    \/ Contains(s, IfFalseOpen \o "X" \o IfFalseOpen)

\* C23 as stated: on a properly nested text the evaluation returns, and the
\* text returned has everything inside a False region dropped, the bodies of
\* the True regions kept with their tags stripped, and the rest unchanged.
C23_ProperNestingResolved ==
    EvalEnded => evalPc = "returned" /\ evalResult = Resolved(evalInput)

\* C23 (amended): the same, for the properly nested texts whose plain text
\* holds no "<".  While the evaluation runs, every region it replaces holds
\* no other opener of its own keyword (the innermost region goes first).
C23_ProperNestingResolvedNoStray ==
    /\ (EvalEnded /\ NoStrayBracket(evalInput))
           => evalPc = "returned" /\ evalResult = Resolved(evalInput)
    /\ (evalPc = "false_for" /\ evalConds # <<>> /\ NoStrayBracket(evalInput))
           => Count(evalConds[1][1], IfFalseOpen) = 1
    /\ (evalPc = "true_for" /\ evalConds # <<>> /\ NoStrayBracket(evalInput))
           => Count(evalConds[1][1], IfTrueOpen) = 1

C23_Witness ==
    /\ evalPc = "returned"
    /\ NoStrayBracket(evalInput)
    /\ SameKeywordNesting(evalInput)
    /\ evalResult = Resolved(evalInput)
    /\ evalResult # ""

\* ---------------------------------------------------------------------------
\* An inner list inserted before the outer list
\* ---------------------------------------------------------------------------

\* every inner list an outer element names is inserted before the outer list
InnerFirst(outer) ==
    LET o == ValueOf(replacements, outer).elems
    IN  \A i \in DOMAIN o :
            LET g == Str(ValueOf(o[i], "inner_key"))
            IN  HasKey(replacements, g) /\ KeyIndex(g) < KeyIndex(outer)

\* the instances of the outer body with the fields of the outer element
\* filled in, the inner region left as the outer pass wrote it
NestedUnexpanded ==
    LET o == ValueOf(replacements, "outer").elems
        title(i) == Str(ValueOf(o[i], "title"))
        g(i) == Str(ValueOf(o[i], "inner_key"))
    IN  CASE template = TitleFirstTemplate ->
               Cat([i \in DOMAIN o |->
                      title(i) \o "<for " \o g(i) \o ">{{ x }}</for " \o g(i) \o ">"])
          [] template = TitleLastTemplate ->
               Cat([i \in DOMAIN o |->
                      "[<for " \o g(i) \o ">{{ x }},</for " \o g(i) \o ">"
                          \o title(i) \o "]"])
          [] template = TitleInsideTemplate ->
               Cat([i \in DOMAIN o |->
                      "<for " \o g(i) \o ">" \o title(i) \o "{{ x }};</for "
                          \o g(i) \o ">"])

\* C27.  When the inner lists are inserted before the outer list whose pass
\* writes their tags, the render returns and no inner loop is expanded: each
\* <for inner>...</for inner> region is in the result as the outer pass left
\* it, the placeholders of the inner elements still in it.
C27_InnerBeforeOuterNotExpanded ==
    (/\ Finished
     /\ template \in NestedTemplates
     /\ InnerFirst("outer")) =>
        /\ pc = "done"
        /\ result = NestedUnexpanded

\* the example of the specification with grp1 before outer: not "Av1v2"
C27_Witness ==
    /\ pc = "done"
    /\ template = TitleFirstTemplate
    /\ InnerFirst("outer")
    /\ Len(ValueOf(replacements, "outer").elems) = 1
    /\ Len(ValueOf(replacements, "grp1").elems) = 2
    /\ result = "A<for grp1>{{ x }}</for grp1>"
    /\ NestedExpected = "Av1v2"

(***************************************************************************)
(* The Aqua gate check: main of aqua_gate_check.py, gate_check_images and  *)
(* the functions under it, and the summary of image_scan_summary.py.  The  *)
(* image scanner is the environment: it answers with suppressions,         *)
(* vulnerabilities and assurance results, or raises an HTTPError.  A name  *)
(* a module uses is the definition of that name in the repository.         *)
(***************************************************************************)

\* the most images on the command line
MaxImages == 2

\* None, and a key that is not in the dict
NoneVal == "<None>"
Absent  == "<absent>"

\* d.get(key): None for a key that is absent
Get(v) == IF v = Absent THEN NoneVal ELSE v

\* the images of the registry
ImageName(i) == "ghcr.io/va/app" \o Decimal(i) \o ":1"

ImageLists == {[i \in 1..k |-> ImageName(i)] : k \in 0..MaxImages}

\* a vulnerability as the scanner lists it
Vulnerabilities ==
    [name : {"CVE-1"}, path : {"", "/p"},
     ack_author : {Absent, NoneVal, "", "bob"},
     ack_expiration_days : {0, 5, 40},
     ack_expiration_date : {0}, ack_comment : {""}]

\* the fixable vulnerabilities of one image
VulnerabilityLists == Lists(Vulnerabilities, 1)

\* a suppression: the issue and resource it names, the repository or the
\* image it is for, and its expiration
SuppressionOf(issue, path, repo, img, days) ==
    [issue_name |-> issue, resource_path |-> path, repository |-> repo,
     image |-> img, expiration_days |-> days, expiration_configured_at |-> 10,
     comment |-> "risk accepted"]

Suppressions ==
    {SuppressionOf("CVE-1", "/p", "va/app1", Absent, 5),
     SuppressionOf("CVE-1", Absent, Absent, "ghcr.io/va/app2:1", 40),
     SuppressionOf("CVE-1", "/p", "va/app2", Absent, 0),
     SuppressionOf("CVE-2", "/p", "va/app1", Absent, 5)}

SuppressionLists ==
    Lists(Suppressions, 1)
        \cup {<<SuppressionOf("CVE-2", "/p", "va/app1", Absent, 5),
                SuppressionOf("CVE-1", "/p", "va/app1", Absent, 5)>>}

\* image["name"].split(":")[0].split("ghcr.io/")[1]
RepositoryOf(name) ==
    LET colon == Find(name, ":", 1)
        head == IF colon = 0 THEN name ELSE SubSeq(name, 1, colon - 1)
        from == Find(head, "ghcr.io/", 1) + Len("ghcr.io/")
        next == Find(head, "ghcr.io/", from)
    IN  IF next = 0 THEN Suffix(head, from) ELSE SubSeq(head, from, next - 1)

filter_suppressions_by_image(image, sups) ==
    SelectSeq(sups, LAMBDA s : \/ Get(s.repository) = RepositoryOf(image)
                               \/ Get(s.image) = image)

\* the day the suppression ends (format_suppression_expiration_date, as a
\* day number)
format_suppression_expiration_date(s) ==
    s.expiration_configured_at + s.expiration_days

attach_suppression_data_to_vulnerability(v, s) ==
    [v EXCEPT !.ack_expiration_days = s.expiration_days,
              !.ack_expiration_date = format_suppression_expiration_date(s),
              !.ack_comment = s.comment]

\* the suppressions that match the vulnerability, in list order
SuppressionMatches(v, image_suppressions) ==
    SelectSeq(image_suppressions,
              LAMBDA s : /\ v.name = s.issue_name
                         /\ \/ Get(s.resource_path) = v.path
                            \/ Get(s.resource_path) = NoneVal /\ v.path = "")

\* vulnerability.get("ack_author") is not None
\*     or vulnerability.get("ack_author") != ""
AckAuthorTest(v) ==
    Get(v.ack_author) # NoneVal \/ Get(v.ack_author) # ""

\* the pair (unsuppressed, suppressed): None is the empty sequence, a
\* vulnerability the sequence of it alone
find_suppression_for_vulnerability(v, image_suppressions) ==
    LET matches == SuppressionMatches(v, image_suppressions)
    IN  IF matches # <<>>
        THEN <<<<>>, <<attach_suppression_data_to_vulnerability(v, matches[1])>>>>
        ELSE IF AckAuthorTest(v)
        THEN <<<<>>, <<v>>>>
        ELSE <<<<v>>, <<>>>>

\* the sequences of ts one after the other
RECURSIVE Flat(_)
Flat(ts) == IF ts = <<>> THEN <<>> ELSE ts[1] \o Flat(Tail(ts))

\* (trim_none(unsuppressed_vulns), trim_none(suppressed_vulns))
sort_image_vulnerabilities_by_suppressed(image, vs, sups) ==
    IF vs = <<>> THEN <<<<>>, <<>>>>
    ELSE LET image_suppressions == filter_suppressions_by_image(image, sups)
             pairs == [i \in DOMAIN vs |->
                          find_suppression_for_vulnerability(vs[i], image_suppressions)]
         IN  <<Flat([i \in DOMAIN vs |-> pairs[i][1]]),
               Flat([i \in DOMAIN vs |-> pairs[i][2]])>>

get_gate_check_data_for_image(image, sups, vs, disallowed) ==
    LET sorted == sort_image_vulnerabilities_by_suppressed(image, vs, sups)
    IN  [name |-> image,
         vulnerabilities |-> sorted[1],
         suppressed_vulnerabilities |->
             SelectSeq(sorted[2], LAMBDA v : /\ v.ack_expiration_days # 0
                                             /\ v.ack_expiration_days <= 31),
         disallowed |-> disallowed]

\* the entry of "images" for one image
ImageParams(d) ==
    [has_suppressed_vulnerabilities |-> d.suppressed_vulnerabilities # <<>>,
     has_non_remediated_vulnerabilities |-> d.vulnerabilities # <<>>,
     has_vulnerabilities |->
         d.vulnerabilities # <<>> \/ d.suppressed_vulnerabilities # <<>>,
     has_no_vulnerabilities |->
         ~(d.vulnerabilities # <<>> /\ d.suppressed_vulnerabilities # <<>>),
     has_no_non_remediated_vulnerabilities |-> ~(d.vulnerabilities # <<>>),
     has_no_suppressed_vulnerabilities |-> ~(d.suppressed_vulnerabilities # <<>>),
     failed_aqua_policy |-> d.disallowed]

image_data_to_template_params(data) == [i \in DOMAIN data |-> ImageParams(data[i])]

\* vuln['ack_author'] of a suppressed vulnerability that has no such key
SummaryKeyError(data) ==
    \E i \in DOMAIN data :
        \E j \in DOMAIN data[i].suppressed_vulnerabilities :
            data[i].suppressed_vulnerabilities[j].ack_author = Absent

\* only the Aqua gate check runs
OnlyGate ==
    /\ TemplateIdle /\ EvalIdle /\ HandleIdle /\ PagesIdle /\ TeeIdle
    /\ SdeIdle

InitGate == GateIdle /\ OnlyGate

\* main(): images = json.loads(sys.argv[1])
MainCall ==
    /\ gatePc = "idle"
    /\ SdeIdle
    /\ images' \in ImageLists
    /\ gatePc' = "get_all_suppressions"
    /\ UNCHANGED <<suppressions, fixable_image_vulnerabilities, image_data,
                   gate_check_flag, template_params, exit_code>>
    /\ UNCHANGED notGateVars

\* suppressions = image_scanner.get_all_suppressions()
GetAllSuppressions ==
    /\ gatePc = "get_all_suppressions"
    /\ suppressions' \in SuppressionLists
    /\ gatePc' = "image_data"
    /\ UNCHANGED <<images, fixable_image_vulnerabilities, image_data,
                   gate_check_flag, template_params, exit_code>>
    /\ UNCHANGED notGateVars

\* a request of the image scanner fails
ScannerRaisesHTTPError ==
    /\ \/ gatePc = "get_all_suppressions"
       \/ gatePc = "image_data" /\ Len(image_data) < Len(images)
    /\ gatePc' = "http_error"
    /\ UNCHANGED <<images, suppressions, fixable_image_vulnerabilities,
                   image_data, gate_check_flag, template_params, exit_code>>
    /\ UNCHANGED notGateVars

\* the next element of image_data: get_gate_check_data_for_image(image, ...)
GetGateCheckDataForImage ==
    /\ gatePc = "image_data"
    /\ Len(image_data) < Len(images)
    /\ \E vs \in VulnerabilityLists, disallowed \in BOOLEAN :
          /\ fixable_image_vulnerabilities' = vs
          /\ image_data' =
                Append(image_data,
                       get_gate_check_data_for_image(
                           images[Len(image_data) + 1], suppressions, vs,
                           disallowed))
    /\ UNCHANGED <<images, suppressions, gate_check_flag, template_params,
                   gatePc, exit_code>>
    /\ UNCHANGED notGateVars

\* gate_check_flag = any(image["assurance_results"]['disallowed'] ...)
\* return gate_check_flag, image_data
AnyDisallowed ==
    /\ gatePc = "image_data"
    /\ Len(image_data) = Len(images)
    /\ gate_check_flag' = (\E i \in DOMAIN image_data : image_data[i].disallowed)
    /\ gatePc' = "output_summary"
    /\ UNCHANGED <<images, suppressions, fixable_image_vulnerabilities,
                   image_data, template_params, exit_code>>
    /\ UNCHANGED notGateVars

\* the summary step is left out
SkipImageScanSummary ==
    /\ gatePc = "output_summary"
    /\ gatePc' = "check_flag"
    /\ UNCHANGED <<images, suppressions, fixable_image_vulnerabilities,
                   image_data, gate_check_flag, template_params, exit_code>>
    /\ UNCHANGED notGateVars

\* github_actions_image_scan_step.output_image_scan_summary(image_data):
\* the parameters of the template, or the KeyError that ends the process
OutputImageScanSummary ==
    /\ gatePc = "output_summary"
    /\ IF SummaryKeyError(image_data)
       THEN /\ gatePc' = "raised"
            /\ exit_code' = 1
            /\ UNCHANGED template_params
       ELSE /\ template_params' = image_data_to_template_params(image_data)
            /\ gatePc' = "check_flag"
            /\ UNCHANGED exit_code
    /\ UNCHANGED <<images, suppressions, fixable_image_vulnerabilities,
                   image_data, gate_check_flag>>
    /\ UNCHANGED notGateVars

\* if gate_check_flag is True: sys.exit(99); else main returns
ExitGateCheck ==
    /\ gatePc = "check_flag"
    /\ exit_code' = IF gate_check_flag THEN 99 ELSE 0
    /\ gatePc' = "exited"
    /\ UNCHANGED <<images, suppressions, fixable_image_vulnerabilities,
                   image_data, gate_check_flag, template_params>>
    /\ UNCHANGED notGateVars

\* except HTTPError: logging.error(...); sys.exit(1)
HandleHTTPError ==
    /\ gatePc = "http_error"
    /\ exit_code' = 1
    /\ gatePc' = "exited"
    /\ UNCHANGED <<images, suppressions, fixable_image_vulnerabilities,
                   image_data, gate_check_flag, template_params>>
    /\ UNCHANGED notGateVars

NextGate ==
    \/ MainCall
    \/ GetAllSuppressions
    \/ ScannerRaisesHTTPError
    \/ GetGateCheckDataForImage
    \/ AnyDisallowed
    \/ OutputImageScanSummary
    \/ ExitGateCheck
    \/ HandleHTTPError

SpecGate == InitGate /\ [][NextGate]_vars

(***************************************************************************)
(* The SDE gate check: gate_check of sde.py.  SD Elements is the           *)
(* environment: it answers with the projects of the app, the policy and    *)
(* the countermeasure summary.  Dates and the clock are day numbers.       *)
(***************************************************************************)

\* the latest day the clock shows
MaxNow == 3

\* a date CRM_DATA does not hold (the key is absent or null)
NoDate == 0

HighestRisk == "Highest Risk Requirements Only"
Round2 == "Requirements Round 2"
Round3 == "Requirements Round 3"

PolicyNames == {HighestRisk, Round2, Round3, "Requirements Round 1"}

\* CRM_DATA: the start and expiration dates of the two rounds, each of
\* them nullable (crm_db/models.py)
CrmData ==
    [round2_start : {NoDate, 1}, round2_expiration : {NoDate, 2},
     round3_start : {NoDate, 1}, round3_expiration : {NoDate, 2}]

\* sde.get_projects_by_app_id: no project, or the latest project first
Projects == [survey_complete : BOOLEAN, risk_policy_compliant : BOOLEAN]

ProjectLists == Lists(Projects, 1)

\* countermeasure_data['total']
CountermeasureTotals == {0, 4}

\* get_gate_check_summary_table: the table, with the rows of the expiration
\* data when there is any; the percentage divides by the total
get_gate_check_summary_table(total, expiration_data) ==
    IF total = 0
    THEN [kind |-> "ZeroDivisionError", expiration_data |-> <<>>]
    ELSE [kind |-> "table", expiration_data |-> expiration_data]

\* what get_summary_and_error_code does: the annotations it writes, in
\* order, and the (summary, error_code) pair it returns; a summary of an
\* exception kind stands for the exception raised
Outcome(notes, table, code) ==
    [annotations |-> notes, summary |-> table, error_code |-> code]

get_summary_and_error_code(project, name, total, crm, clock) ==
    LET expiration == IF name = Round2 THEN crm.round2_expiration
                      ELSE crm.round3_expiration
        start == IF name = Round2 THEN crm.round2_start ELSE crm.round3_start
    IN  IF project.risk_policy_compliant
        THEN Outcome(<<>>, get_gate_check_summary_table(total, <<>>), 0)
        ELSE IF name = HighestRisk
        THEN Outcome(<<"error">>, get_gate_check_summary_table(total, <<>>), 99)
        ELSE IF ~(name = Round2) /\ ~(name = Round3)
        THEN Outcome(<<>>, get_gate_check_summary_table(total, <<>>), 0)
        ELSE IF name = Round2 /\ crm.round2_expiration = NoDate
        THEN Outcome(<<>>, get_gate_check_summary_table(total, <<>>), 0)
        ELSE IF name = Round3 /\ crm.round3_expiration = NoDate
        THEN Outcome(<<>>, get_gate_check_summary_table(total, <<>>), 0)
        ELSE IF start = NoDate
        THEN Outcome(<<>>, [kind |-> "KeyError", expiration_data |-> <<>>], 0)
        ELSE IF clock < expiration
        THEN Outcome(<<"warning">>,
                     get_gate_check_summary_table(
                         total, <<start, expiration, expiration - clock, FALSE>>),
                     0)
        ELSE Outcome(<<"error">>,
                     get_gate_check_summary_table(
                         total, <<start, expiration, 0, TRUE>>),
                     99)

\* only the SDE gate check runs
OnlySde ==
    /\ TemplateIdle /\ EvalIdle /\ HandleIdle /\ PagesIdle /\ TeeIdle
    /\ GateIdle

InitSde == SdeIdle /\ OnlySde

\* gate_check(sys.argv[1]), with the CRM_DATA of the environment
SdeGateCheckCall ==
    /\ sdePc = "idle"
    /\ GateIdle
    /\ CRM_DATA' \in CrmData
    /\ sdePc' = "get_sde_data"
    /\ UNCHANGED <<projects, policy, cm_summary, now, annotations, written,
                   summary, error_code, sdeExit>>
    /\ UNCHANGED notSdeVars

\* get_sde_data(app_id): print_and_exit with 150 or 151, or the project,
\* the policy and the countermeasure summary
GetSdeData ==
    /\ sdePc = "get_sde_data"
    /\ projects' \in ProjectLists
    /\ IF Len(projects') = 0
       THEN /\ sdeExit' = 150
            /\ sdePc' = "exited"
            /\ UNCHANGED <<policy, cm_summary>>
       ELSE IF ~projects'[1].survey_complete
       THEN /\ sdeExit' = 151
            /\ sdePc' = "exited"
            /\ UNCHANGED <<policy, cm_summary>>
       ELSE /\ policy' \in PolicyNames
            /\ cm_summary' \in CountermeasureTotals
            /\ sdePc' = "get_summary_and_error_code"
            /\ UNCHANGED sdeExit
    /\ UNCHANGED <<CRM_DATA, now, annotations, written, summary, error_code>>
    /\ UNCHANGED notSdeVars

\* summary, error_code = get_summary_and_error_code(project, policy,
\* countermeasure_summary), at any time of the clock; an exception ends the
\* process
GetSummaryAndErrorCode ==
    /\ sdePc = "get_summary_and_error_code"
    /\ now' \in 1..MaxNow
    /\ LET out == get_summary_and_error_code(projects[1], policy, cm_summary,
                                             CRM_DATA, now')
       IN  /\ annotations' = out.annotations
           /\ summary' = out.summary
           /\ IF out.summary.kind = "table"
              THEN /\ error_code' = out.error_code
                   /\ sdePc' = "write_summary"
                   /\ UNCHANGED sdeExit
              ELSE /\ sdePc' = "raised"
                   /\ sdeExit' = 1
                   /\ UNCHANGED error_code
    /\ UNCHANGED <<projects, policy, cm_summary, CRM_DATA, written>>
    /\ UNCHANGED notSdeVars

\* write_summary(summary)
WriteSummary ==
    /\ sdePc = "write_summary"
    /\ written' = Append(written, summary)
    /\ sdePc' = "exit"
    /\ UNCHANGED <<projects, policy, cm_summary, CRM_DATA, now, annotations,
                   summary, error_code, sdeExit>>
    /\ UNCHANGED notSdeVars

\* sys.exit(error_code)
SdeExit ==
    /\ sdePc = "exit"
    /\ sdeExit' = error_code
    /\ sdePc' = "exited"
    /\ UNCHANGED <<projects, policy, cm_summary, CRM_DATA, now, annotations,
                   written, summary, error_code>>
    /\ UNCHANGED notSdeVars

NextSde ==
    \/ SdeGateCheckCall
    \/ GetSdeData
    \/ GetSummaryAndErrorCode
    \/ WriteSummary
    \/ SdeExit

SpecSde == InitSde /\ [][NextSde]_vars

\* a process runs one of the two gate checks
NextGateChecks ==
    \/ NextGate
    \/ NextSde

InitGateChecks == GateIdle /\ InitSde

SpecGateChecks == InitGateChecks /\ [][NextGateChecks]_vars

\* ---------------------------------------------------------------------------
\* Claims on the Aqua gate check
\* ---------------------------------------------------------------------------

\* the vulnerability has an ack author: the key is there, not None, not ""
HasAckAuthor(v) == v.ack_author \notin {Absent, NoneVal, ""}

\* the element of image_data the last step has added, and its image
LastImageData == image_data[Len(image_data)]

ImageDataAdded == gatePc = "image_data" /\ image_data # <<>>

\* C24.  A vulnerability that no suppression of the image matches and that
\* has no ack author is unsuppressed: find_suppression_for_vulnerability
\* gives (vulnerability, None), and the vulnerability is in the image's
\* "vulnerabilities"; with a match or an ack author it is suppressed.
C24_UnsuppressedWithoutMatchOrAuthor ==
    ImageDataAdded =>
        LET image_suppressions ==
                filter_suppressions_by_image(LastImageData.name, suppressions)
        IN  \A j \in DOMAIN fixable_image_vulnerabilities :
                LET v == fixable_image_vulnerabilities[j]
                    unsuppressed ==
                        /\ SuppressionMatches(v, image_suppressions) = <<>>
                        /\ ~HasAckAuthor(v)
                IN  /\ unsuppressed <=>
                           find_suppression_for_vulnerability(v, image_suppressions)
                               = <<<<v>>, <<>>>>
                    /\ unsuppressed =>
                           \E k \in DOMAIN LastImageData.vulnerabilities :
                               LastImageData.vulnerabilities[k] = v

\* gate_check_images has returned to main
GateCheckImagesReturned ==
    \/ gatePc \in {"output_summary", "check_flag", "raised"}
    \/ gatePc = "exited" /\ exit_code # 1

\* the process of main has ended
MainEnded == gatePc \in {"exited", "raised"}

AnyImageDisallowed == \E i \in DOMAIN image_data : image_data[i].disallowed

\* C25.  The flag gate_check_images returns is True exactly when some image
\* is disallowed, and main ends with exit status 99 exactly when it was
\* given a flag that is True.
C25_Exit99IffSomeImageDisallowed ==
    /\ GateCheckImagesReturned => (gate_check_flag <=> AnyImageDisallowed)
    /\ MainEnded =>
          (exit_code = 99 <=> (GateCheckImagesReturned /\ gate_check_flag))

\* <if flag>body</if flag> once the flag is filled in
If(flag, body) ==
    "<if " \o Str(BoolVal(flag)) \o ">" \o body
        \o "</if " \o Str(BoolVal(flag)) \o ">"

\* the part of SUMMARY_TEMPLATE for one image with the flags of the image
\* filled in; a letter stands for the text or the table of each block, ";"
\* ends the image
ImageSummary(p) ==
    If(p.has_no_vulnerabilities, "N")
        \o If(p.has_vulnerabilities,
              If(p.has_non_remediated_vulnerabilities, "V")
                  \o If(p.has_no_non_remediated_vulnerabilities, "v")
                  \o If(p.has_suppressed_vulnerabilities, "S")
                  \o If(p.has_no_suppressed_vulnerabilities, "s"))
        \o If(p.failed_aqua_policy, "P")
        \o ";"

\* the summary build_string_from_template renders from the parameters
RenderedSummary ==
    _evaluate_conditions(
        Cat([i \in DOMAIN template_params |-> ImageSummary(template_params[i])])).text

\* the texts between the ";" of t
RECURSIVE Segments(_)
Segments(t) ==
    IF Find(t, ";", 1) = 0 THEN <<>>
    ELSE <<SubSeq(t, 1, Find(t, ";", 1) - 1)>>
             \o Segments(Suffix(t, Find(t, ";", 1) + 1))

SummaryOutput == gatePc \in {"check_flag", "exited"} /\ template_params # <<>>

\* C29.  For every image of the summary, has_no_vulnerabilities is the
\* negation of has_vulnerabilities; the "No new vulnerabilities" block is
\* shown exactly when the image has no unsuppressed and no listed suppressed
\* vulnerability, and never along with a table of vulnerabilities.
C29_NoVulnerabilitiesIsNegation ==
    SummaryOutput =>
        \A i \in DOMAIN template_params :
            LET p == template_params[i]
                shown == Segments(RenderedSummary)[i]
            IN  /\ p.has_no_vulnerabilities = ~p.has_vulnerabilities
                /\ Contains(shown, "N") <=>
                       /\ image_data[i].vulnerabilities = <<>>
                       /\ image_data[i].suppressed_vulnerabilities = <<>>
                /\ ~(Contains(shown, "N")
                        /\ (Contains(shown, "V") \/ Contains(shown, "S")))

\* ---------------------------------------------------------------------------
\* Claims on the SDE gate check
\* ---------------------------------------------------------------------------

\* get_summary_and_error_code has run
SummaryComputed == sdePc \in {"write_summary", "raised"}

\* the expiration date CRM_DATA holds for the policy of the project
ExpirationOfPolicy ==
    IF policy = Round2 THEN CRM_DATA.round2_expiration
    ELSE CRM_DATA.round3_expiration

ExpiringPolicy ==
    /\ ~projects[1].risk_policy_compliant
    /\ policy \in {Round2, Round3}
    /\ ExpirationOfPolicy # NoDate

\* the cases of error code 99
MustFail ==
    /\ ~projects[1].risk_policy_compliant
    /\ \/ policy = HighestRisk
       \/ ExpiringPolicy /\ ~(now < ExpirationOfPolicy)

\* the cases of the warning
MustWarn == ExpiringPolicy /\ now < ExpirationOfPolicy

Annotated(type) == \E i \in DOMAIN annotations : annotations[i] = type

\* C26.  get_summary_and_error_code returns error code 99 exactly when the
\* project is not compliant and its policy is the highest-risk one, or is
\* round 2 or 3 with an expiration date that the clock has reached; in every
\* other case it returns 0.  It writes an error annotation exactly in the 99
\* cases and a warning exactly for a non-compliant round 2 or 3 project
\* before its expiration date.
C26_ErrorCode99Cases ==
    SummaryComputed =>
        /\ sdePc = "write_summary"
        /\ error_code = (IF MustFail THEN 99 ELSE 0)
        /\ Annotated("error") <=> MustFail
        /\ Annotated("warning") <=> MustWarn

\* ---------------------------------------------------------------------------
\* The summary comes before the exit
\* ---------------------------------------------------------------------------

\* C30.  A run of the Aqua gate check that ends with exit status 99 has put
\* out the image scan summary before; a run of the SDE gate check that exits
\* with the error code of get_summary_and_error_code has written the summary
\* before, at the latest when it comes to sys.exit; a run that exits with
\* 150 or 151 has written no summary.
C30_SummaryBeforeExit ==
    /\ (gatePc = "exited" /\ exit_code = 99) =>
           /\ template_params # <<>>
           /\ template_params = image_data_to_template_params(image_data)
    /\ sdePc = "exit" => written = <<summary>>
    /\ (sdePc = "exited" /\ sdeExit \notin {150, 151}) =>
           /\ written = <<summary>>
           /\ sdeExit = error_code
    /\ (sdePc = "exited" /\ sdeExit \in {150, 151}) => written = <<>>

C30_Witness ==
    /\ gatePc = "exited"
    /\ exit_code = 99
    /\ Len(images) = 2
    /\ Len(template_params) = 2
    /\ ~image_data[1].disallowed
    /\ image_data[2].disallowed

====
